---- MODULE Spec2Model ----
(***************************************************************************)
(* DataSov: the identity / access-permission program (datasov-identity)    *)
(* and the marketplace program (datasov-solana), as one state machine.     *)
(*                                                                         *)
(* One action per instruction.  An instruction is one atomic step: the     *)
(* host runtime commits every account write and token transfer of an       *)
(* instruction that returns Ok and discards all of them when it returns    *)
(* Err.  Each instruction is modelled as                                   *)
(*   - <name>_check : the error code the instruction ends with ("Ok" when  *)
(*     it succeeds), account validation of its #[derive(Accounts)] struct  *)
(*     first, then the require! lines of the handler in source order;      *)
(*   - <name>       : the action, which records the code in `result` and   *)
(*     applies the handler's writes only when the code is "Ok".            *)
(*                                                                         *)
(* Fields that are written once and never read by any instruction          *)
(* (created_at, updated_at, registered_at, granted_at, bump, provider_name,*)
(* description) are not part of the state.                                 *)
(***************************************************************************)
EXTENDS Integers, Sequences, FiniteSets, TLC

VARIABLES
    registry,      \* Option<KYCOracleRegistry>   (PDA "oracle_registry")
    oracles,       \* oracle authority -> KYCOracle (PDA "oracle", authority)
    identities,    \* identity_id -> IdentityAccount (PDA "identity", id)
    permissions,   \* <<identity_id, consumer>> -> AccessPermission
    marketplace,   \* Option<Marketplace>          (PDA "marketplace")
    listings,      \* listing_id -> DataListing    (PDA "listing", id)
    tokens,        \* token account -> amount (one mint)
    clock,         \* Clock::get()?.unix_timestamp
    result,        \* the last instruction and the code it ended with
    fee_price,     \* fee computation on its own: the price (u64, as limbs)
    fee_bps,       \* fee computation on its own: the fee rate (u16)
    fee_out        \* fee computation on its own: the outcome

vars == <<registry, oracles, identities, permissions, marketplace, listings,
          tokens, clock, result, fee_price, fee_bps, fee_out>>

ledger == <<registry, oracles, identities, permissions, marketplace, listings,
            tokens>>

feevars == <<fee_price, fee_bps, fee_out>>

(***************************************************************************)
(* Bounds of the model and the finite input sets.                          *)
(***************************************************************************)
MaxTime == 1
MaxPrice == 3
\* every actor starts with one token less than the highest price
InitBalance == MaxPrice - 1
MaxStake == 2

Actors == {"alice", "bob", "carol"}
IdentityIds == {"idA", "idB"}
ListingIds == {1}

\* Option<T>: None is the empty sequence, Some(x) the one-element sequence.
None == <<>>
Some(x) == <<x>>
IsSome(o) == o # <<>>
Unwrap(o) == o[1]

(***************************************************************************)
(* Wide unsigned integers.  A value is a little-endian sequence of limbs   *)
(* in base 10000 without leading zero limbs (zero is the empty sequence),  *)
(* so that u64 and u128 arithmetic is exact.                               *)
(***************************************************************************)
Base == 10000

RECURSIVE Norm(_)
Norm(x) == IF x = <<>> THEN <<>>
           ELSE IF x[Len(x)] = 0 THEN Norm(SubSeq(x, 1, Len(x) - 1))
           ELSE x

RECURSIVE ToLimbs(_)
ToLimbs(n) == IF n = 0 THEN <<>> ELSE <<n % Base>> \o ToLimbs(n \div Base)

RECURSIVE FromLimbs(_)
FromLimbs(x) == IF x = <<>> THEN 0 ELSE Head(x) + Base * FromLimbs(Tail(x))

RECURSIVE MulCarry(_, _, _)
MulCarry(x, m, carry) ==
    IF x = <<>> THEN ToLimbs(carry)
    ELSE LET t == Head(x) * m + carry
         IN  <<t % Base>> \o MulCarry(Tail(x), m, t \div Base)

\* x * m for a small multiplier m (m < 2^16).
MulSmall(x, m) == Norm(MulCarry(x, m, 0))

RECURSIVE AddCarry(_, _, _)
AddCarry(x, y, carry) ==
    IF x = <<>> /\ y = <<>> THEN ToLimbs(carry)
    ELSE LET a == IF x = <<>> THEN 0 ELSE Head(x)
             b == IF y = <<>> THEN 0 ELSE Head(y)
             t == a + b + carry
         IN  <<t % Base>> \o AddCarry(IF x = <<>> THEN <<>> ELSE Tail(x),
                                      IF y = <<>> THEN <<>> ELSE Tail(y),
                                      t \div Base)

Add(x, y) == Norm(AddCarry(x, y, 0))

RECURSIVE LessFrom(_, _, _)
LessFrom(x, y, i) ==
    IF i = 0 THEN FALSE
    ELSE IF x[i] # y[i] THEN x[i] < y[i]
    ELSE LessFrom(x, y, i - 1)

\* x < y
Less(x, y) == IF Len(x) # Len(y) THEN Len(x) < Len(y) ELSE LessFrom(x, y, Len(x))

Leq(x, y) == ~Less(y, x)

RECURSIVE SubBorrow(_, _, _)
SubBorrow(x, y, borrow) ==
    IF x = <<>> THEN <<>>
    ELSE LET b == IF y = <<>> THEN 0 ELSE Head(y)
             t == Head(x) - b - borrow
         IN  <<IF t < 0 THEN t + Base ELSE t>>
             \o SubBorrow(Tail(x), IF y = <<>> THEN <<>> ELSE Tail(y),
                          IF t < 0 THEN 1 ELSE 0)

\* x - y, for y <= x
Sub(x, y) == Norm(SubBorrow(x, y, 0))

\* 2^64 and 2^128
TWO64 == <<1616, 955, 737, 6744, 1844>>
TWO128 == <<1456, 6821, 4317, 4607, 6337, 4634, 938, 6692, 2823, 340>>

\* `x as u64` of a u128: the low 64 bits.
RECURSIVE AsU64(_)
AsU64(x) == IF Less(x, TWO64) THEN x ELSE AsU64(Sub(x, TWO64))

\* u128 checked_div by the literal 10000: in base 10000 the quotient is the
\* value without its lowest limb.
CheckedDiv10000(x) == IF x = <<>> THEN <<>> ELSE Tail(x)

(***************************************************************************)
(* purchase_data, lines 113-121: the fee split.                            *)
(*   fee = ((price as u128).checked_mul(bps as u128)?.checked_div(10000)?) *)
(*            as u64                                                       *)
(*   net = price.checked_sub(fee)?                                         *)
(***************************************************************************)
FeeSplitU64(price, bps) ==
    \* the product taken in 64 bits: the widening to u128 left out
    LET prod == MulSmall(price, bps)
        fee == CheckedDiv10000(AsU64(prod))
    IN  IF Less(price, fee)
        THEN [code |-> "ArithmeticOverflow", fee |-> <<>>, net |-> <<>>]
        ELSE [code |-> "Ok", fee |-> fee, net |-> Sub(price, fee)]

FeeSplit(price, bps) ==
    LET prod == MulSmall(price, bps)
    IN  IF ~Less(prod, TWO128)
        THEN [code |-> "ArithmeticOverflow", fee |-> <<>>, net |-> <<>>]
        ELSE LET fee == AsU64(CheckedDiv10000(prod))
             IN  IF Less(price, fee)
                 THEN [code |-> "ArithmeticOverflow", fee |-> <<>>, net |-> <<>>]
                 ELSE [code |-> "Ok", fee |-> fee, net |-> Sub(price, fee)]

(***************************************************************************)
(* Strings are named values with a byte length; only the length is ever    *)
(* inspected by the programs.                                              *)
(***************************************************************************)
MAX_ARWEAVE_TX_ID_LEN == 128
MAX_IDENTITY_ID_LEN == 64
MAX_DATA_TYPES == 10
INITIAL_REPUTATION == 5000

StrLen(s) == IF s = "ar_long" THEN MAX_ARWEAVE_TX_ID_LEN + 1 ELSE 43

\* IdentityStatus, lines 511-517
IdentityStatus == {"Pending", "Verified", "Revoked", "Suspended"}
\* VerificationLevel, lines 519-526
VerificationLevel == {"None", "Basic", "Enhanced", "High", "Credential"}
\* DataType of the identity program, lines 537-548
IdentityDataType == {"LocationHistory", "AppUsage", "PurchaseHistory", "HealthData",
                     "SocialMediaActivity", "SearchHistory", "FinancialData",
                     "CommunicationData", "Custom"}

\* Vec::contains
Contains(seq, x) == \E k \in 1..Len(seq) : seq[k] = x

Reply(op, code) == [op |-> op, code |-> code]

(***************************************************************************)
(* datasov-identity                                                        *)
(***************************************************************************)

\* initialize_oracle_registry, lines 10-24; InitializeOracleRegistry, 259-274
initialize_oracle_registry_check(authority, minimum_stake, slash_amount) ==
    IF IsSome(registry) THEN "AccountAlreadyInUse"     \* init
    ELSE "Ok"

initialize_oracle_registry(authority, minimum_stake, slash_amount) ==
    LET code == initialize_oracle_registry_check(authority, minimum_stake, slash_amount)
    IN  /\ result' = Reply("initialize_oracle_registry", code)
        /\ IF code = "Ok"
           THEN registry' = Some([authority |-> authority,
                                  minimum_stake |-> minimum_stake,
                                  slash_amount |-> slash_amount,
                                  oracle_count |-> 0])
           ELSE UNCHANGED registry
        /\ UNCHANGED <<oracles, identities, permissions, marketplace, listings,
                       tokens, clock, feevars>>

\* register_oracle, line 35 with a strict comparison
register_oracle_check_strict(oracle_authority, stake_amount) ==
    IF ~IsSome(registry) THEN "AccountNotInitialized"
    ELSE IF oracle_authority \in DOMAIN oracles THEN "AccountAlreadyInUse"
    ELSE IF ~(stake_amount > Unwrap(registry).minimum_stake) THEN "InsufficientStake"
    ELSE "Ok"

\* register_oracle, lines 27-57; RegisterOracle, lines 276-298
register_oracle_check(oracle_authority, stake_amount) ==
    IF ~IsSome(registry) THEN "AccountNotInitialized"
    ELSE IF oracle_authority \in DOMAIN oracles THEN "AccountAlreadyInUse"  \* init
    ELSE IF ~(stake_amount >= Unwrap(registry).minimum_stake) THEN "InsufficientStake"
    ELSE "Ok"

register_oracle(oracle_authority, stake_amount) ==
    LET code == register_oracle_check(oracle_authority, stake_amount)
    IN  /\ result' = Reply("register_oracle", code)
        /\ IF code = "Ok"
           THEN /\ oracles' = oracles @@ (oracle_authority :>
                      [oracle_pubkey |-> oracle_authority,
                       stake_amount |-> stake_amount,
                       verification_count |-> 0,
                       successful_verifications |-> 0,
                       reputation_score |-> INITIAL_REPUTATION,
                       is_active |-> TRUE])
                /\ registry' = Some([Unwrap(registry) EXCEPT !.oracle_count = @ + 1])
           ELSE UNCHANGED <<oracles, registry>>
        /\ UNCHANGED <<identities, permissions, marketplace, listings, tokens,
                       clock, feevars>>

\* register_identity, lines 60-88; RegisterIdentity, lines 300-316
register_identity_check(owner, identity_id, arweave_tx_id) ==
    IF identity_id \in DOMAIN identities THEN "AccountAlreadyInUse"     \* init
    ELSE IF ~(StrLen(identity_id) <= MAX_IDENTITY_ID_LEN) THEN "IdentityIdTooLong"
    ELSE IF ~(StrLen(arweave_tx_id) <= MAX_ARWEAVE_TX_ID_LEN) THEN "ArweaveTxIdTooLong"
    ELSE "Ok"

register_identity(owner, identity_id, arweave_tx_id) ==
    LET code == register_identity_check(owner, identity_id, arweave_tx_id)
    IN  /\ result' = Reply("register_identity", code)
        /\ IF code = "Ok"
           THEN identities' = identities @@ (identity_id :>
                      [identity_id |-> identity_id,
                       owner |-> owner,
                       arweave_tx_id |-> arweave_tx_id,
                       status |-> "Pending",
                       verification_level |-> "None",
                       verified_at |-> None])
           ELSE UNCHANGED identities
        /\ UNCHANGED <<registry, oracles, permissions, marketplace, listings,
                       tokens, clock, feevars>>

\* verify_identity, line 99: the identity must be Pending
VerifyStatusOkAny(identity) == identity.status # "Revoked"

VerifyStatusOk(identity) == identity.status = "Pending"

\* verify_identity, lines 91-122; VerifyIdentity, lines 318-341
verify_identity_check(oracle_authority, identity_id, verification_level, arweave_kyc_tx_id) ==
    IF identity_id \notin DOMAIN identities THEN "AccountNotInitialized"
    ELSE IF oracle_authority \notin DOMAIN oracles THEN "AccountNotInitialized"
    ELSE IF ~IsSome(registry) THEN "AccountNotInitialized"
    ELSE IF ~VerifyStatusOk(identities[identity_id]) THEN "InvalidStatus"
    ELSE IF ~oracles[oracle_authority].is_active THEN "OracleNotActive"
    ELSE IF ~(StrLen(arweave_kyc_tx_id) <= MAX_ARWEAVE_TX_ID_LEN) THEN "ArweaveTxIdTooLong"
    ELSE "Ok"

\* verify_identity with line 111 (successful_verifications += 1) left out
verify_identity_uncounted(oracle_authority, identity_id, verification_level, arweave_kyc_tx_id) ==
    LET code == verify_identity_check(oracle_authority, identity_id,
                                      verification_level, arweave_kyc_tx_id)
    IN  /\ result' = Reply("verify_identity", code)
        /\ IF code = "Ok"
           THEN /\ identities' = [identities EXCEPT ![identity_id] =
                      [@ EXCEPT !.status = "Verified",
                                !.verification_level = verification_level,
                                !.verified_at = Some(clock),
                                !.arweave_tx_id = arweave_kyc_tx_id]]
                /\ oracles' = [oracles EXCEPT ![oracle_authority] =
                      [@ EXCEPT !.verification_count = @ + 1]]
           ELSE UNCHANGED <<identities, oracles>>
        /\ UNCHANGED <<registry, permissions, marketplace, listings, tokens,
                       clock, feevars>>

verify_identity(oracle_authority, identity_id, verification_level, arweave_kyc_tx_id) ==
    LET code == verify_identity_check(oracle_authority, identity_id,
                                      verification_level, arweave_kyc_tx_id)
    IN  /\ result' = Reply("verify_identity", code)
        /\ IF code = "Ok"
           THEN /\ identities' = [identities EXCEPT ![identity_id] =
                      [@ EXCEPT !.status = "Verified",
                                !.verification_level = verification_level,
                                !.verified_at = Some(clock),
                                !.arweave_tx_id = arweave_kyc_tx_id]]
                /\ oracles' = [oracles EXCEPT ![oracle_authority] =
                      [@ EXCEPT !.verification_count = @ + 1,
                                !.successful_verifications = @ + 1]]
           ELSE UNCHANGED <<identities, oracles>>
        /\ UNCHANGED <<registry, permissions, marketplace, listings, tokens,
                       clock, feevars>>

\* update_identity, lines 125-145; UpdateIdentity, lines 343-354
update_identity_check(owner, identity_id, new_arweave_tx_id) ==
    IF identity_id \notin DOMAIN identities THEN "AccountNotInitialized"
    ELSE IF identities[identity_id].owner # owner THEN "ConstraintHasOne"
    ELSE IF ~(identities[identity_id].status = "Verified") THEN "IdentityNotVerified"
    ELSE IF ~(identities[identity_id].owner = owner) THEN "Unauthorized"
    ELSE IF ~(StrLen(new_arweave_tx_id) <= MAX_ARWEAVE_TX_ID_LEN) THEN "ArweaveTxIdTooLong"
    ELSE "Ok"

update_identity(owner, identity_id, new_arweave_tx_id) ==
    LET code == update_identity_check(owner, identity_id, new_arweave_tx_id)
    IN  /\ result' = Reply("update_identity", code)
        /\ IF code = "Ok"
           THEN identities' = [identities EXCEPT ![identity_id] =
                      [@ EXCEPT !.arweave_tx_id = new_arweave_tx_id]]
           ELSE UNCHANGED identities
        /\ UNCHANGED <<registry, oracles, permissions, marketplace, listings,
                       tokens, clock, feevars>>

\* revoke_identity, line 157: the status written
RevokedStatusSuspended == "Suspended"

RevokedStatus == "Revoked"

\* revoke_identity with the Verified precondition of update_identity (line 133)
revoke_identity_check_verified_only(owner, identity_id, arweave_revocation_tx_id) ==
    IF identity_id \notin DOMAIN identities THEN "AccountNotInitialized"
    ELSE IF identities[identity_id].owner # owner THEN "ConstraintHasOne"
    ELSE IF ~(identities[identity_id].status = "Verified") THEN "IdentityNotVerified"
    ELSE IF ~(StrLen(arweave_revocation_tx_id) <= MAX_ARWEAVE_TX_ID_LEN)
         THEN "ArweaveTxIdTooLong"
    ELSE "Ok"

\* revoke_identity, lines 148-168; RevokeIdentity, lines 356-367
revoke_identity_check(owner, identity_id, arweave_revocation_tx_id) ==
    IF identity_id \notin DOMAIN identities THEN "AccountNotInitialized"
    ELSE IF identities[identity_id].owner # owner THEN "ConstraintHasOne"
    ELSE IF ~(identities[identity_id].owner = owner) THEN "Unauthorized"
    ELSE IF ~(StrLen(arweave_revocation_tx_id) <= MAX_ARWEAVE_TX_ID_LEN)
         THEN "ArweaveTxIdTooLong"
    ELSE "Ok"

revoke_identity(owner, identity_id, arweave_revocation_tx_id) ==
    LET code == revoke_identity_check(owner, identity_id, arweave_revocation_tx_id)
    IN  /\ result' = Reply("revoke_identity", code)
        /\ IF code = "Ok"
           THEN identities' = [identities EXCEPT ![identity_id] =
                      [@ EXCEPT !.status = RevokedStatus,
                                !.arweave_tx_id = arweave_revocation_tx_id]]
           ELSE UNCHANGED identities
        /\ UNCHANGED <<registry, oracles, permissions, marketplace, listings,
                       tokens, clock, feevars>>

\* grant_access, lines 183-184: the bounds on the number of data types
DataTypesLenCheckOffByOne(data_types) ==
    IF ~(Len(data_types) > 0) THEN "NoDataTypes"
    ELSE IF ~(Len(data_types) <= MAX_DATA_TYPES + 1) THEN "TooManyDataTypes"
    ELSE "Ok"

DataTypesLenCheck(data_types) ==
    IF ~(Len(data_types) > 0) THEN "NoDataTypes"
    ELSE IF ~(Len(data_types) <= MAX_DATA_TYPES) THEN "TooManyDataTypes"
    ELSE "Ok"

\* grant_access, line 181 (and validate_access line 242 below)
GrantIdentityOk(identity) == identity.status = "Verified"

\* grant_access with the permission account taken over when the pair's earlier
\* grant is inactive (init_if_needed in place of init)
grant_access_check_reuse(owner, identity_id, consumer, permission_type, data_types, expires_at, arweave_permission_tx_id) ==
    IF identity_id \notin DOMAIN identities THEN "AccountNotInitialized"
    ELSE IF <<identity_id, consumer>> \in DOMAIN permissions
            /\ permissions[<<identity_id, consumer>>].is_active
         THEN "AccountAlreadyInUse"
    ELSE IF ~GrantIdentityOk(identities[identity_id]) THEN "IdentityNotVerified"
    ELSE IF ~(identities[identity_id].owner = owner) THEN "Unauthorized"
    ELSE IF DataTypesLenCheck(data_types) # "Ok" THEN DataTypesLenCheck(data_types)
    ELSE IF ~(StrLen(arweave_permission_tx_id) <= MAX_ARWEAVE_TX_ID_LEN)
         THEN "ArweaveTxIdTooLong"
    ELSE "Ok"

\* grant_access, lines 171-207; GrantAccess, lines 369-397
grant_access_check(owner, identity_id, consumer, permission_type, data_types, expires_at, arweave_permission_tx_id) ==
    IF identity_id \notin DOMAIN identities THEN "AccountNotInitialized"
    ELSE IF <<identity_id, consumer>> \in DOMAIN permissions
         THEN "AccountAlreadyInUse"                                     \* init
    ELSE IF ~GrantIdentityOk(identities[identity_id]) THEN "IdentityNotVerified"
    ELSE IF ~(identities[identity_id].owner = owner) THEN "Unauthorized"
    ELSE IF DataTypesLenCheck(data_types) # "Ok" THEN DataTypesLenCheck(data_types)
    ELSE IF ~(StrLen(arweave_permission_tx_id) <= MAX_ARWEAVE_TX_ID_LEN)
         THEN "ArweaveTxIdTooLong"
    ELSE "Ok"

grant_access(owner, identity_id, consumer, permission_type, data_types, expires_at, arweave_permission_tx_id) ==
    LET code == grant_access_check(owner, identity_id, consumer, permission_type,
                                   data_types, expires_at, arweave_permission_tx_id)
    IN  /\ result' = Reply("grant_access", code)
        /\ IF code = "Ok"
           THEN permissions' = permissions @@ (<<identity_id, consumer>> :>
                      [identity_id |-> identity_id,
                       consumer |-> consumer,
                       permission_type |-> permission_type,
                       data_types |-> data_types,
                       expires_at |-> expires_at,
                       is_active |-> TRUE,
                       arweave_proof_tx_id |-> arweave_permission_tx_id])
           ELSE UNCHANGED permissions
        /\ UNCHANGED <<registry, oracles, identities, marketplace, listings,
                       tokens, clock, feevars>>

\* revoke_access, lines 210-232; RevokeAccess, lines 399-420
revoke_access_check(owner, identity_id, consumer, arweave_revocation_tx_id) ==
    IF <<identity_id, consumer>> \notin DOMAIN permissions THEN "AccountNotInitialized"
    ELSE IF identity_id \notin DOMAIN identities THEN "AccountNotInitialized"
    ELSE IF identities[identity_id].owner # owner THEN "ConstraintHasOne"
    ELSE IF ~(identities[identity_id].owner = owner) THEN "Unauthorized"
    ELSE IF ~permissions[<<identity_id, consumer>>].is_active THEN "PermissionNotActive"
    ELSE IF ~(StrLen(arweave_revocation_tx_id) <= MAX_ARWEAVE_TX_ID_LEN)
         THEN "ArweaveTxIdTooLong"
    ELSE "Ok"

revoke_access(owner, identity_id, consumer, arweave_revocation_tx_id) ==
    LET code == revoke_access_check(owner, identity_id, consumer, arweave_revocation_tx_id)
    IN  /\ result' = Reply("revoke_access", code)
        /\ IF code = "Ok"
           THEN permissions' = [permissions EXCEPT ![<<identity_id, consumer>>] =
                      [@ EXCEPT !.is_active = FALSE,
                                !.arweave_proof_tx_id = arweave_revocation_tx_id]]
           ELSE UNCHANGED permissions
        /\ UNCHANGED <<registry, oracles, identities, marketplace, listings,
                       tokens, clock, feevars>>

\* validate_access, lines 247-249: the expiry test at time `now`
NotExpiredInclusive(permission, now) ==
    IsSome(permission.expires_at) => now <= Unwrap(permission.expires_at)

NotExpired(permission, now) ==
    IsSome(permission.expires_at) => now < Unwrap(permission.expires_at)

\* validate_access, line 242
ValidateIdentityOkAny(identity) == TRUE

ValidateIdentityOk(identity) == identity.status = "Verified"

\* validate_access, lines 235-254; ValidateAccess, lines 422-441
validate_access_check(consumer, identity_id, data_type) ==
    IF <<identity_id, consumer>> \notin DOMAIN permissions THEN "AccountNotInitialized"
    ELSE IF identity_id \notin DOMAIN identities THEN "AccountNotInitialized"
    ELSE IF ~ValidateIdentityOk(identities[identity_id]) THEN "IdentityNotVerified"
    ELSE IF ~permissions[<<identity_id, consumer>>].is_active THEN "PermissionNotActive"
    ELSE IF ~Contains(permissions[<<identity_id, consumer>>].data_types, data_type)
         THEN "DataTypeNotAuthorized"
    ELSE IF ~NotExpired(permissions[<<identity_id, consumer>>], clock)
         THEN "PermissionExpired"
    ELSE "Ok"

validate_access(consumer, identity_id, data_type) ==
    /\ result' = Reply("validate_access", validate_access_check(consumer, identity_id, data_type))
    /\ UNCHANGED <<ledger, clock, feevars>>

(***************************************************************************)
(* The token program (CPI token::transfer).  One mint; one token account   *)
(* per actor, owned by that actor, and the marketplace's associated token  *)
(* account "vault", owned by the marketplace PDA.                          *)
(***************************************************************************)
MarketplacePda == "marketplace"
TokenAccounts == Actors \cup {"vault"}
TokenOwner(account) == IF account = "vault" THEN MarketplacePda ELSE account
AssociatedTokenAccount(owner) == IF owner = MarketplacePda THEN "vault" ELSE owner

\* token::transfer that moves the amount before it looks at the authority
TransferThenCheck(bal, from, to, authority, amount) ==
    IF bal[from] < amount THEN [code |-> "InsufficientFunds", bal |-> bal]
    ELSE IF TokenOwner(from) # authority
         THEN [code |-> "OwnerMismatch",
               bal |-> [bal EXCEPT ![from] = @ - amount, ![to] = @ + amount]]
    ELSE IF from = to THEN [code |-> "Ok", bal |-> bal]
    ELSE [code |-> "Ok",
          bal |-> [bal EXCEPT ![from] = @ - amount, ![to] = @ + amount]]

\* token::transfer(from, to, authority, amount)
Transfer(bal, from, to, authority, amount) ==
    IF bal[from] < amount THEN [code |-> "InsufficientFunds", bal |-> bal]
    ELSE IF TokenOwner(from) # authority THEN [code |-> "OwnerMismatch", bal |-> bal]
    ELSE IF from = to THEN [code |-> "Ok", bal |-> bal]
    ELSE [code |-> "Ok",
          bal |-> [bal EXCEPT ![from] = @ - amount, ![to] = @ + amount]]

(***************************************************************************)
(* datasov-solana                                                          *)
(***************************************************************************)
BASIS_POINTS == 10000

\* DataType of the marketplace, lines 414-423: a tag and, for Custom, a label
NamedDataTypes == {"LocationHistory", "AppUsage", "PurchaseHistory", "HealthData",
                   "SocialMediaActivity", "SearchHistory"}
Named(tag) == [tag |-> tag, label |-> ""]
Custom(label) == [tag |-> "Custom", label |-> label]

\* purchase_data, lines 93-101, with the HealthData arm mapped to AppUsage
RequiredDataTypeShifted(data_type) ==
    CASE data_type.tag = "LocationHistory" -> "LocationHistory"
      [] data_type.tag = "AppUsage" -> "AppUsage"
      [] data_type.tag = "PurchaseHistory" -> "PurchaseHistory"
      [] data_type.tag = "HealthData" -> "AppUsage"
      [] data_type.tag = "SocialMediaActivity" -> "SocialMediaActivity"
      [] data_type.tag = "SearchHistory" -> "SearchHistory"
      [] data_type.tag = "Custom" -> "Custom"

\* purchase_data, lines 93-101, with the Custom arm keeping the label as the
\* category asked of the grant
RequiredDataTypeByLabel(data_type) ==
    CASE data_type.tag = "LocationHistory" -> "LocationHistory"
      [] data_type.tag = "AppUsage" -> "AppUsage"
      [] data_type.tag = "PurchaseHistory" -> "PurchaseHistory"
      [] data_type.tag = "HealthData" -> "HealthData"
      [] data_type.tag = "SocialMediaActivity" -> "SocialMediaActivity"
      [] data_type.tag = "SearchHistory" -> "SearchHistory"
      [] data_type.tag = "Custom" ->
           IF data_type.label \in IdentityDataType THEN data_type.label ELSE "Custom"

\* purchase_data, lines 93-101: marketplace DataType -> identity DataType
RequiredDataType(data_type) ==
    CASE data_type.tag = "LocationHistory" -> "LocationHistory"
      [] data_type.tag = "AppUsage" -> "AppUsage"
      [] data_type.tag = "PurchaseHistory" -> "PurchaseHistory"
      [] data_type.tag = "HealthData" -> "HealthData"
      [] data_type.tag = "SocialMediaActivity" -> "SocialMediaActivity"
      [] data_type.tag = "SearchHistory" -> "SearchHistory"
      [] data_type.tag = "Custom" -> "Custom"

\* initialize_marketplace, lines 19-32; InitializeMarketplace, lines 216-232
initialize_marketplace_check(authority, marketplace_fee_basis_points) ==
    IF IsSome(marketplace) THEN "AccountAlreadyInUse"      \* init
    ELSE "Ok"

initialize_marketplace(authority, marketplace_fee_basis_points) ==
    LET code == initialize_marketplace_check(authority, marketplace_fee_basis_points)
    IN  /\ result' = Reply("initialize_marketplace", code)
        /\ IF code = "Ok"
           THEN marketplace' = Some([authority |-> authority,
                                     fee_basis_points |-> marketplace_fee_basis_points,
                                     total_listings |-> 0,
                                     total_volume |-> 0])
           ELSE UNCHANGED marketplace
        /\ UNCHANGED <<registry, oracles, identities, permissions, listings,
                       tokens, clock, feevars>>

\* create_data_listing without the require of line 49 (the identity belongs to
\* the caller)
create_data_listing_check_any_owner(owner, listing_id, price, data_type, identity_id) ==
    IF ~IsSome(marketplace) THEN "AccountNotInitialized"
    ELSE IF identity_id \notin DOMAIN identities THEN "AccountNotInitialized"
    ELSE IF listing_id \in DOMAIN listings THEN "AccountAlreadyInUse"
    ELSE IF ~(identities[identity_id].status = "Verified") THEN "SellerNotVerified"
    ELSE "Ok"

\* create_data_listing, lines 35-65; CreateDataListing, lines 234-265
create_data_listing_check(owner, listing_id, price, data_type, identity_id) ==
    IF ~IsSome(marketplace) THEN "AccountNotInitialized"
    ELSE IF identity_id \notin DOMAIN identities THEN "AccountNotInitialized"
    ELSE IF listing_id \in DOMAIN listings THEN "AccountAlreadyInUse"      \* init
    ELSE IF ~(identities[identity_id].status = "Verified") THEN "SellerNotVerified"
    ELSE IF ~(identities[identity_id].owner = owner) THEN "IdentityMismatch"
    ELSE "Ok"

create_data_listing(owner, listing_id, price, data_type, identity_id) ==
    LET code == create_data_listing_check(owner, listing_id, price, data_type, identity_id)
    IN  /\ result' = Reply("create_data_listing", code)
        /\ IF code = "Ok"
           THEN /\ listings' = listings @@ (listing_id :>
                      [id |-> listing_id,
                       owner |-> owner,
                       price |-> price,
                       data_type |-> data_type,
                       identity_id |-> identity_id,
                       is_active |-> TRUE,
                       sold_at |-> None,
                       cancelled_at |-> None,
                       buyer |-> None])
                /\ marketplace' = Some([Unwrap(marketplace) EXCEPT !.total_listings = @ + 1])
           ELSE UNCHANGED <<listings, marketplace>>
        /\ UNCHANGED <<registry, oracles, identities, permissions, tokens,
                       clock, feevars>>

\* PurchaseData, lines 267-327: the accounts must exist; buyer_permission is
\* the PDA of (seller_identity, buyer).
purchase_data_accounts(buyer, listing_id, buyer_identity_id) ==
    IF listing_id \notin DOMAIN listings THEN "AccountNotInitialized"
    ELSE IF ~IsSome(marketplace) THEN "AccountNotInitialized"
    ELSE IF listings[listing_id].identity_id \notin DOMAIN identities
         THEN "AccountNotInitialized"
    ELSE IF buyer_identity_id \notin DOMAIN identities THEN "AccountNotInitialized"
    ELSE IF <<listings[listing_id].identity_id, buyer>> \notin DOMAIN permissions
         THEN "AccountNotInitialized"
    ELSE "Ok"

\* purchase_data, lines 78-111, with line 87 (the presented identity belongs to
\* the buyer) left out
purchase_data_requires_any_identity(buyer, listing_id, listing, seller_identity, buyer_identity, buyer_permission, now) ==
    IF ~listing.is_active THEN "ListingNotActive"
    ELSE IF ~(listing.id = listing_id) THEN "InvalidListingId"
    ELSE IF ~(seller_identity.status = "Verified") THEN "SellerNotVerified"
    ELSE IF ~(seller_identity.owner = listing.owner) THEN "IdentityMismatch"
    ELSE IF ~(buyer_identity.status = "Verified") THEN "BuyerNotVerified"
    ELSE IF ~buyer_permission.is_active THEN "NoAccessPermission"
    ELSE IF ~Contains(buyer_permission.data_types,
                      IF listing.data_type.tag = "Custom" THEN "Custom"
                      ELSE listing.data_type.tag)
         THEN "DataTypeNotAuthorized"
    ELSE IF IsSome(buyer_permission.expires_at)
            /\ ~(now < Unwrap(buyer_permission.expires_at)) THEN "PermissionExpired"
    ELSE "Ok"

\* purchase_data, lines 78-111, with the expiry test of line 110 made inclusive
purchase_data_requires_late_expiry(buyer, listing_id, listing, seller_identity, buyer_identity, buyer_permission, now) ==
    IF ~listing.is_active THEN "ListingNotActive"
    ELSE IF ~(listing.id = listing_id) THEN "InvalidListingId"
    ELSE IF ~(seller_identity.status = "Verified") THEN "SellerNotVerified"
    ELSE IF ~(seller_identity.owner = listing.owner) THEN "IdentityMismatch"
    ELSE IF ~(buyer_identity.status = "Verified") THEN "BuyerNotVerified"
    ELSE IF ~(buyer_identity.owner = buyer) THEN "IdentityMismatch"
    ELSE IF ~buyer_permission.is_active THEN "NoAccessPermission"
    ELSE IF ~Contains(buyer_permission.data_types, RequiredDataType(listing.data_type))
         THEN "DataTypeNotAuthorized"
    ELSE IF IsSome(buyer_permission.expires_at)
            /\ ~(now <= Unwrap(buyer_permission.expires_at)) THEN "PermissionExpired"
    ELSE "Ok"

\* purchase_data, lines 78-111, without the is_active require of line 78
purchase_data_requires_any_listing(buyer, listing_id, listing, seller_identity, buyer_identity, buyer_permission, now) ==
    IF ~(listing.id = listing_id) THEN "InvalidListingId"
    ELSE IF ~(seller_identity.status = "Verified") THEN "SellerNotVerified"
    ELSE IF ~(seller_identity.owner = listing.owner) THEN "IdentityMismatch"
    ELSE IF ~(buyer_identity.status = "Verified") THEN "BuyerNotVerified"
    ELSE IF ~(buyer_identity.owner = buyer) THEN "IdentityMismatch"
    ELSE IF ~buyer_permission.is_active THEN "NoAccessPermission"
    ELSE IF ~Contains(buyer_permission.data_types, RequiredDataType(listing.data_type))
         THEN "DataTypeNotAuthorized"
    ELSE IF IsSome(buyer_permission.expires_at)
            /\ ~(now < Unwrap(buyer_permission.expires_at)) THEN "PermissionExpired"
    ELSE "Ok"

\* purchase_data, lines 78-111, without the grant is_active require of line 90
purchase_data_requires_stale_grant(buyer, listing_id, listing, seller_identity, buyer_identity, buyer_permission, now) ==
    IF ~listing.is_active THEN "ListingNotActive"
    ELSE IF ~(listing.id = listing_id) THEN "InvalidListingId"
    ELSE IF ~(seller_identity.status = "Verified") THEN "SellerNotVerified"
    ELSE IF ~(seller_identity.owner = listing.owner) THEN "IdentityMismatch"
    ELSE IF ~(buyer_identity.status = "Verified") THEN "BuyerNotVerified"
    ELSE IF ~(buyer_identity.owner = buyer) THEN "IdentityMismatch"
    ELSE IF ~Contains(buyer_permission.data_types, RequiredDataType(listing.data_type))
         THEN "DataTypeNotAuthorized"
    ELSE IF IsSome(buyer_permission.expires_at)
            /\ ~(now < Unwrap(buyer_permission.expires_at)) THEN "PermissionExpired"
    ELSE "Ok"

\* purchase_data, lines 78-111: the require! lines
purchase_data_requires(buyer, listing_id, listing, seller_identity, buyer_identity, buyer_permission, now) ==
    IF ~listing.is_active THEN "ListingNotActive"
    ELSE IF ~(listing.id = listing_id) THEN "InvalidListingId"
    ELSE IF ~(seller_identity.status = "Verified") THEN "SellerNotVerified"
    ELSE IF ~(seller_identity.owner = listing.owner) THEN "IdentityMismatch"
    ELSE IF ~(buyer_identity.status = "Verified") THEN "BuyerNotVerified"
    ELSE IF ~(buyer_identity.owner = buyer) THEN "IdentityMismatch"
    ELSE IF ~buyer_permission.is_active THEN "NoAccessPermission"
    ELSE IF ~Contains(buyer_permission.data_types, RequiredDataType(listing.data_type))
         THEN "DataTypeNotAuthorized"
    ELSE IF IsSome(buyer_permission.expires_at)
            /\ ~(now < Unwrap(buyer_permission.expires_at)) THEN "PermissionExpired"
    ELSE "Ok"

\* purchase_data, lines 113-143: fee split and the two transfers.  The second
\* transfer failing fails the instruction, which discards the first.
purchase_data_settle_partial(bal, buyer, buyer_token_account, owner_token_account, price, fee_basis_points) ==
    LET split == FeeSplit(ToLimbs(price), fee_basis_points)
    IN  IF split.code # "Ok" THEN [code |-> split.code, bal |-> bal]
        ELSE LET owner_amount == FromLimbs(split.net)
                 fee_amount == FromLimbs(split.fee)
                 t1 == Transfer(bal, buyer_token_account, owner_token_account,
                                buyer, owner_amount)
             IN  IF t1.code # "Ok"
                 THEN [code |-> t1.code \o "(net)", bal |-> bal]
                 ELSE IF fee_amount > 0
                 THEN LET t2 == Transfer(t1.bal, buyer_token_account,
                                         AssociatedTokenAccount(MarketplacePda),
                                         buyer, fee_amount)
                      IN  IF t2.code # "Ok"
                          THEN [code |-> t2.code \o "(fee)", bal |-> t1.bal]
                          ELSE [code |-> "Ok", bal |-> t2.bal]
                 ELSE [code |-> "Ok", bal |-> t1.bal]

purchase_data_settle(bal, buyer, buyer_token_account, owner_token_account, price, fee_basis_points) ==
    LET split == FeeSplit(ToLimbs(price), fee_basis_points)
    IN  IF split.code # "Ok" THEN [code |-> split.code, bal |-> bal]
        ELSE LET owner_amount == FromLimbs(split.net)
                 fee_amount == FromLimbs(split.fee)
                 t1 == Transfer(bal, buyer_token_account, owner_token_account,
                                buyer, owner_amount)
             IN  IF t1.code # "Ok"
                 THEN [code |-> t1.code \o "(net)", bal |-> bal]
                 ELSE IF fee_amount > 0
                 THEN LET t2 == Transfer(t1.bal, buyer_token_account,
                                         AssociatedTokenAccount(MarketplacePda),
                                         buyer, fee_amount)
                      IN  IF t2.code # "Ok"
                          THEN [code |-> t2.code \o "(fee)", bal |-> bal]
                          ELSE [code |-> "Ok", bal |-> t2.bal]
                 ELSE [code |-> "Ok", bal |-> t1.bal]

\* purchase_data, lines 68-154: the code the instruction ends with and the
\* token balances it leaves
purchase_data_outcome(buyer, listing_id, buyer_identity_id, buyer_token_account, owner_token_account) ==
    LET acc == purchase_data_accounts(buyer, listing_id, buyer_identity_id)
    IN  IF acc # "Ok" THEN [code |-> acc, bal |-> tokens]
        ELSE LET listing == listings[listing_id]
                 req == purchase_data_requires(buyer, listing_id, listing,
                            identities[listing.identity_id],
                            identities[buyer_identity_id],
                            permissions[<<listing.identity_id, buyer>>], clock)
             IN  IF req # "Ok" THEN [code |-> req, bal |-> tokens]
                 ELSE purchase_data_settle(tokens, buyer, buyer_token_account,
                          owner_token_account, listing.price,
                          Unwrap(marketplace).fee_basis_points)

\* purchase_data with line 150 adding the seller's net amount to total_volume
purchase_data_net_volume(buyer, listing_id, buyer_identity_id, buyer_token_account, owner_token_account) ==
    LET out == purchase_data_outcome(buyer, listing_id, buyer_identity_id,
                                     buyer_token_account, owner_token_account)
    IN  /\ result' = Reply("purchase_data", out.code)
        /\ tokens' = out.bal
        /\ IF out.code = "Ok"
           THEN /\ listings' = [listings EXCEPT ![listing_id] =
                      [@ EXCEPT !.is_active = FALSE,
                                !.buyer = Some(buyer),
                                !.sold_at = Some(clock)]]
                /\ marketplace' = Some([Unwrap(marketplace) EXCEPT
                      !.total_volume = @ + FromLimbs(FeeSplit(
                          ToLimbs(listings[listing_id].price),
                          Unwrap(marketplace).fee_basis_points).net)])
           ELSE UNCHANGED <<listings, marketplace>>
        /\ UNCHANGED <<registry, oracles, identities, permissions, clock, feevars>>

purchase_data(buyer, listing_id, buyer_identity_id, buyer_token_account, owner_token_account) ==
    LET out == purchase_data_outcome(buyer, listing_id, buyer_identity_id,
                                     buyer_token_account, owner_token_account)
    IN  /\ result' = Reply("purchase_data", out.code)
        /\ tokens' = out.bal
        /\ IF out.code = "Ok"
           THEN /\ listings' = [listings EXCEPT ![listing_id] =
                      [@ EXCEPT !.is_active = FALSE,
                                !.buyer = Some(buyer),
                                !.sold_at = Some(clock)]]
                /\ marketplace' = Some([Unwrap(marketplace) EXCEPT
                      !.total_volume = @ + listings[listing_id].price])
           ELSE UNCHANGED <<listings, marketplace>>
        /\ UNCHANGED <<registry, oracles, identities, permissions, clock, feevars>>

\* update_listing_price / cancel_listing, lines 163 and 178
ListingOpenAlways(listing) == TRUE

ListingOpen(listing) == listing.is_active

\* update_listing_price, lines 157-170; UpdateListingPrice, lines 329-340
update_listing_price_check(owner, listing_id, new_price) ==
    IF listing_id \notin DOMAIN listings THEN "AccountNotInitialized"
    ELSE IF listings[listing_id].owner # owner THEN "ConstraintHasOne"
    ELSE IF ~ListingOpen(listings[listing_id]) THEN "ListingNotActive"
    ELSE IF ~(listings[listing_id].owner = owner) THEN "Unauthorized"
    ELSE "Ok"

update_listing_price(owner, listing_id, new_price) ==
    LET code == update_listing_price_check(owner, listing_id, new_price)
    IN  /\ result' = Reply("update_listing_price", code)
        /\ IF code = "Ok"
           THEN listings' = [listings EXCEPT ![listing_id] = [@ EXCEPT !.price = new_price]]
           ELSE UNCHANGED listings
        /\ UNCHANGED <<registry, oracles, identities, permissions, marketplace,
                       tokens, clock, feevars>>

\* cancel_listing, lines 173-186, without the is_active require of line 178
cancel_listing_check_unguarded(owner, listing_id) ==
    IF listing_id \notin DOMAIN listings THEN "AccountNotInitialized"
    ELSE IF listings[listing_id].owner # owner THEN "ConstraintHasOne"
    ELSE IF ~(listings[listing_id].owner = owner) THEN "Unauthorized"
    ELSE "Ok"

\* cancel_listing, lines 173-186; CancelListing, lines 342-353
cancel_listing_check(owner, listing_id) ==
    IF listing_id \notin DOMAIN listings THEN "AccountNotInitialized"
    ELSE IF listings[listing_id].owner # owner THEN "ConstraintHasOne"
    ELSE IF ~ListingOpen(listings[listing_id]) THEN "ListingNotActive"
    ELSE IF ~(listings[listing_id].owner = owner) THEN "Unauthorized"
    ELSE "Ok"

cancel_listing(owner, listing_id) ==
    LET code == cancel_listing_check(owner, listing_id)
    IN  /\ result' = Reply("cancel_listing", code)
        /\ IF code = "Ok"
           THEN listings' = [listings EXCEPT ![listing_id] =
                      [@ EXCEPT !.is_active = FALSE, !.cancelled_at = Some(clock)]]
           ELSE UNCHANGED listings
        /\ UNCHANGED <<registry, oracles, identities, permissions, marketplace,
                       tokens, clock, feevars>>

\* withdraw_fees without has_one = authority (line 361) and the require of
\* line 194
withdraw_fees_outcome_any_caller(authority, amount, marketplace_token_account) ==
    IF ~IsSome(marketplace) THEN [code |-> "AccountNotInitialized", bal |-> tokens]
    ELSE Transfer(tokens, marketplace_token_account,
                  AssociatedTokenAccount(authority), MarketplacePda, amount)

\* withdraw_fees, lines 189-213; WithdrawFees, lines 355-379
withdraw_fees_outcome(authority, amount, marketplace_token_account) ==
    IF ~IsSome(marketplace) THEN [code |-> "AccountNotInitialized", bal |-> tokens]
    ELSE IF Unwrap(marketplace).authority # authority
         THEN [code |-> "ConstraintHasOne", bal |-> tokens]
    ELSE IF ~(Unwrap(marketplace).authority = authority)
         THEN [code |-> "Unauthorized", bal |-> tokens]
    ELSE Transfer(tokens, marketplace_token_account,
                  AssociatedTokenAccount(authority), MarketplacePda, amount)

withdraw_fees(authority, amount, marketplace_token_account) ==
    LET out == withdraw_fees_outcome(authority, amount, marketplace_token_account)
    IN  /\ result' = Reply("withdraw_fees", out.code)
        /\ tokens' = out.bal
        /\ UNCHANGED <<registry, oracles, identities, permissions, marketplace,
                       listings, clock, feevars>>

\* The host clock: monotonic.
Tick ==
    /\ clock < MaxTime
    /\ clock' = clock + 1
    /\ UNCHANGED <<ledger, result, feevars>>

(***************************************************************************)
(* The calls explored.  Arguments are drawn from small sets; the identity  *)
(* ledger and the marketplace are explored in two specifications, the      *)
(* second starting from a state the first kind of run ends in (an oracle   *)
(* registered, the seller's and the buyer's identity Verified).            *)
(***************************************************************************)
Callers == {"alice", "bob"}
VerificationInputs == {"Basic", "High"}
RequestedDataTypes == {"HealthData", "Custom"}

\* a list of n data types, cycling through the identity program's DataType
DataTypeCycle == <<"HealthData", "AppUsage", "Custom", "LocationHistory",
                   "PurchaseHistory", "SocialMediaActivity", "SearchHistory",
                   "FinancialData", "CommunicationData">>
DataTypeList(n) == [k \in 1..n |-> DataTypeCycle[((k - 1) % Len(DataTypeCycle)) + 1]]
DataTypeLists == {DataTypeList(0), DataTypeList(1), <<"AppUsage">>,
                  DataTypeList(MAX_DATA_TYPES), DataTypeList(MAX_DATA_TYPES + 1)}
MarketDataTypeLists == {<<"HealthData">>, <<"AppUsage", "Custom">>}

Expiries == {None} \cup {Some(t) : t \in 1..MaxTime}

FeeIdle ==
    /\ fee_price = <<>>
    /\ fee_bps = 0
    /\ fee_out = None

\* ---- the identity ledger, from the empty ledger ----
InitIdentity ==
    /\ registry = None
    /\ oracles = <<>>
    /\ identities = <<>>
    /\ permissions = <<>>
    /\ marketplace = None
    /\ listings = <<>>
    /\ tokens = [a \in TokenAccounts |-> IF a = "vault" THEN 0 ELSE InitBalance]
    /\ clock = 0
    /\ result = Reply("none", "Ok")
    /\ FeeIdle

NextIdentity ==
    \/ \E m \in 1..MaxStake : initialize_oracle_registry("carol", m, 1)
    \/ \E st \in 0..MaxStake : register_oracle("carol", st)
    \/ \E ar \in {"ar_reg", "ar_long"} : register_identity("alice", "idA", ar)
    \/ \E a \in {"carol", "bob"}, lv \in VerificationInputs,
          ar \in {"ar_kyc", "ar_long"} : verify_identity(a, "idA", lv, ar)
    \/ \E a \in Callers, ar \in {"ar_upd", "ar_long"} : update_identity(a, "idA", ar)
    \/ \E a \in Callers, ar \in {"ar_rev", "ar_long"} : revoke_identity(a, "idA", ar)
    \/ \E a \in Callers, dts \in DataTypeLists, ex \in Expiries,
          ar \in {"ar_grant", "ar_long"} :
          grant_access(a, "idA", "bob", "ReadOnly", dts, ex, ar)
    \/ \E a \in Callers, ar \in {"ar_ungrant", "ar_long"} :
          revoke_access(a, "idA", "bob", ar)
    \/ \E c \in {"bob", "carol"}, dt \in RequestedDataTypes :
          validate_access(c, "idA", dt)
    \/ Tick

SpecIdentity == InitIdentity /\ [][NextIdentity]_vars

\* ---- the marketplace, from verified identities ----
VerifiedIdentity(identity_id, owner) ==
    [identity_id |-> identity_id, owner |-> owner, arweave_tx_id |-> "ar_kyc",
     status |-> "Verified", verification_level |-> "Basic", verified_at |-> Some(0)]

InitMarket ==
    /\ registry = Some([authority |-> "carol", minimum_stake |-> 1,
                        slash_amount |-> 1, oracle_count |-> 1])
    /\ oracles = ("carol" :> [oracle_pubkey |-> "carol", stake_amount |-> 1,
                              verification_count |-> 2,
                              successful_verifications |-> 2,
                              reputation_score |-> INITIAL_REPUTATION,
                              is_active |-> TRUE])
    /\ identities = ("idA" :> VerifiedIdentity("idA", "alice"))
                    @@ ("idB" :> VerifiedIdentity("idB", "bob"))
    /\ permissions = <<>>
    /\ marketplace = None
    /\ listings = <<>>
    /\ tokens = [a \in TokenAccounts |-> IF a = "vault" THEN 0 ELSE InitBalance]
    /\ clock = 0
    /\ result = Reply("none", "Ok")
    /\ FeeIdle

NextMarket ==
    \/ \E bps \in {5000, 20000} : initialize_marketplace("carol", bps)
    \/ \E a \in Callers, p \in 1..MaxPrice, dt \in {Named("HealthData"), Custom("x")} :
          create_data_listing(a, 1, p, dt, "idA")
    \/ \E b \in Callers, i \in {"idA", "idB"}, from \in {"alice", "bob"},
          to \in TokenAccounts : purchase_data(b, 1, i, from, to)
    \/ \E a \in Callers, p \in 1..MaxPrice : update_listing_price(a, 1, p)
    \/ \E a \in Callers : cancel_listing(a, 1)
    \/ \E a \in {"carol", "bob"}, amt \in {1, 2}, from \in {"vault", "bob"} :
          withdraw_fees(a, amt, from)
    \/ \E a \in Callers, dts \in MarketDataTypeLists, ex \in Expiries :
          grant_access(a, "idA", "bob", "ReadOnly", dts, ex, "ar_grant")
    \/ \E a \in Callers : revoke_access(a, "idA", "bob", "ar_ungrant")
    \/ \E a \in Callers, i \in {"idA", "idB"} : revoke_identity(a, i, "ar_rev")
    \/ \E i \in {"idA", "idB"} : verify_identity("carol", i, "High", "ar_kyc")
    \/ \E dt \in RequestedDataTypes : validate_access("bob", "idA", dt)
    \/ Tick

SpecMarket == InitMarket /\ [][NextMarket]_vars

\* ---- the end-to-end scenario, from the empty ledger ----
\* oracle carol, seller alice (idA), consumer bob (idB), one HealthData listing
ScenarioPrice == MaxPrice - 1

InitScenario == InitIdentity

NextScenario ==
    \/ initialize_oracle_registry("carol", 1, 1)
    \/ \E st \in 0..1 : register_oracle("carol", st)
    \/ register_identity("alice", "idA", "ar_reg")
    \/ register_identity("bob", "idB", "ar_reg")
    \/ \E i \in IdentityIds : verify_identity("carol", i, "Basic", "ar_kyc")
    \/ grant_access("alice", "idA", "bob", "ReadOnly", <<"HealthData">>, None, "ar_grant")
    \/ initialize_marketplace("carol", 5000)
    \/ create_data_listing("alice", 1, ScenarioPrice, Named("HealthData"), "idA")
    \/ \E to \in TokenAccounts : purchase_data("bob", 1, "idB", "bob", to)
    \/ Tick

SpecScenario == InitScenario /\ [][NextScenario]_vars

\* ---- both programs together, from the empty ledger ----
\* every instruction with an input that passes and an input that fails
InitLedger == InitIdentity

NextLedger ==
    \/ initialize_oracle_registry("carol", 1, 1)
    \/ \E st \in 0..1 : register_oracle("carol", st)
    \/ \E ar \in {"ar_reg", "ar_long"} : register_identity("alice", "idA", ar)
    \/ register_identity("bob", "idB", "ar_reg")
    \/ \E i \in IdentityIds, ar \in {"ar_kyc", "ar_long"} :
          verify_identity("carol", i, "Basic", ar)
    \/ \E a \in Callers : update_identity(a, "idA", "ar_kyc")
    \/ \E a \in Callers : revoke_identity(a, "idA", "ar_kyc")
    \/ \E a \in Callers, dts \in {DataTypeList(0), DataTypeList(1)},
          ex \in {None, Some(MaxTime)} :
          grant_access(a, "idA", "bob", "ReadOnly", dts, ex, "ar_grant")
    \/ \E a \in Callers : revoke_access(a, "idA", "bob", "ar_grant")
    \/ \E dt \in RequestedDataTypes : validate_access("bob", "idA", dt)
    \/ initialize_marketplace("carol", 5000)
    \/ \E a \in Callers, p \in {MaxPrice - 1, MaxPrice} :
          create_data_listing(a, 1, p, Named("HealthData"), "idA")
    \/ \E to \in {"alice", "bob"} : purchase_data("bob", 1, "idB", "bob", to)
    \/ \E a \in Callers : update_listing_price(a, 1, MaxPrice - 1)
    \/ \E a \in Callers : cancel_listing(a, 1)
    \/ \E a \in {"carol", "bob"}, from \in {"vault", "bob"} : withdraw_fees(a, 1, from)
    \/ Tick

SpecLedger == InitLedger /\ [][NextLedger]_vars

\* ---- two buyers and the seller racing for one listing ----
\* Instructions that write the same listing account are run one after the
\* other by the runtime (the listing is `mut` in PurchaseData, CancelListing
\* and UpdateListingPrice), each as a whole: every interleaving of whole
\* instructions is explored.  Seller alice (idA); buyers bob (idB) and carol
\* (idC), each with a Verified identity.
Buyers == {"bob", "carol"}
BuyerIdentity(b) == IF b = "bob" THEN "idB" ELSE "idC"

InitRace ==
    /\ registry = Some([authority |-> "carol", minimum_stake |-> 1,
                        slash_amount |-> 1, oracle_count |-> 1])
    /\ oracles = ("carol" :> [oracle_pubkey |-> "carol", stake_amount |-> 1,
                              verification_count |-> 3,
                              successful_verifications |-> 3,
                              reputation_score |-> INITIAL_REPUTATION,
                              is_active |-> TRUE])
    /\ identities = ("idA" :> VerifiedIdentity("idA", "alice"))
                    @@ ("idB" :> VerifiedIdentity("idB", "bob"))
                    @@ ("idC" :> VerifiedIdentity("idC", "carol"))
    /\ permissions = <<>>
    /\ marketplace = None
    /\ listings = <<>>
    /\ tokens = [a \in TokenAccounts |-> IF a = "vault" THEN 0 ELSE InitBalance]
    /\ clock = 0
    /\ result = Reply("none", "Ok")
    /\ FeeIdle

NextRace ==
    \/ initialize_marketplace("carol", 5000)
    \/ \E p \in 1..MaxPrice :
          create_data_listing("alice", 1, p, Named("HealthData"), "idA")
    \/ \E c \in Buyers :
          grant_access("alice", "idA", c, "ReadOnly", <<"HealthData">>, None, "ar_grant")
    \/ \E b \in Buyers :
          purchase_data(b, 1, BuyerIdentity(b), AssociatedTokenAccount(b),
                        AssociatedTokenAccount("alice"))
    \/ \E p \in 1..MaxPrice : update_listing_price("alice", 1, p)
    \/ cancel_listing("alice", 1)
    \/ Tick

SpecRace == InitRace /\ [][NextRace]_vars

\* ---- a purchase racing with revocations and expiry ----
\* revoke_access and revoke_identity take the grant and the identity as `mut`,
\* purchase_data reads the same accounts: the runtime runs them one after the
\* other, each as a whole.  Seller alice (idA), buyer bob (idB).
InitRevoke == InitMarket

NextRevoke ==
    \/ initialize_marketplace("carol", 5000)
    \/ \E p \in 1..MaxPrice :
          create_data_listing("alice", 1, p, Named("HealthData"), "idA")
    \/ \E ex \in Expiries :
          grant_access("alice", "idA", "bob", "ReadOnly", <<"HealthData">>, ex, "ar_grant")
    \/ purchase_data("bob", 1, "idB", "bob", "alice")
    \/ revoke_access("alice", "idA", "bob", "ar_ungrant")
    \/ revoke_identity("alice", "idA", "ar_rev")
    \/ revoke_identity("bob", "idB", "ar_rev")
    \/ Tick

SpecRevoke == InitRevoke /\ [][NextRevoke]_vars

\* ---- the marketplace counters, over two listings ----
\* alice (idA) and bob (idB) list under ids 1 and 2; bob holds a grant from
\* alice's identity and buys.
CounterListingIds == {1, 2}

InitCounters == InitMarket

NextCounters ==
    \/ \E bps \in {5000, 20000} : initialize_marketplace("carol", bps)
    \/ \E a \in Callers, l \in CounterListingIds, p \in 1..MaxPrice, i \in IdentityIds :
          create_data_listing(a, l, p, Named("HealthData"), i)
    \/ grant_access("alice", "idA", "bob", "ReadOnly", <<"HealthData">>, None, "ar_grant")
    \/ \E l \in CounterListingIds : purchase_data("bob", l, "idB", "bob", "alice")
    \/ \E l \in CounterListingIds, p \in 1..MaxPrice : update_listing_price("alice", l, p)
    \/ \E a \in Callers, l \in CounterListingIds : cancel_listing(a, l)
    \/ \E a \in {"carol", "bob"}, amt \in 1..MaxPrice, from \in {"vault", "bob"} :
          withdraw_fees(a, amt, from)

SpecCounters == InitCounters /\ [][NextCounters]_vars

\* ---- listing categories against grant categories ----
\* Seller alice (idA) lists under one of the six named categories or under
\* Custom with a label; buyer bob (idB) holds one grant.
CustomLabels == {"", "x", "HealthData"}
ListingDataTypes == {Named(t) : t \in NamedDataTypes} \cup {Custom(a) : a \in CustomLabels}
CategoryGrantLists == {<<"Custom">>, <<"HealthData">>, <<"AppUsage", "Custom">>,
                       <<"LocationHistory", "AppUsage", "PurchaseHistory", "HealthData",
                         "SocialMediaActivity", "SearchHistory">>,
                       <<"FinancialData", "CommunicationData">>}

InitCategory == InitMarket

NextCategory ==
    \/ initialize_marketplace("carol", 5000)
    \/ \E dt \in ListingDataTypes : create_data_listing("alice", 1, 1, dt, "idA")
    \/ \E dts \in CategoryGrantLists, ex \in Expiries :
          grant_access("alice", "idA", "bob", "ReadOnly", dts, ex, "ar_grant")
    \/ purchase_data("bob", 1, "idB", "bob", "alice")
    \/ Tick

SpecCategory == InitCategory /\ [][NextCategory]_vars

\* ---- several oracles verifying several identities ----
\* From the empty ledger: carol and bob register as oracles, alice and bob
\* register identities idA and idB.
OracleAuthorities == {"carol", "bob"}

InitOracles == InitIdentity

NextOracles ==
    \/ \E m \in 1..MaxStake : initialize_oracle_registry("carol", m, 1)
    \/ \E o \in OracleAuthorities, st \in 0..MaxStake : register_oracle(o, st)
    \/ register_identity("alice", "idA", "ar_reg")
    \/ register_identity("bob", "idB", "ar_reg")
    \/ \E o \in Actors, i \in IdentityIds, ar \in {"ar_kyc", "ar_long"} :
          verify_identity(o, i, "Basic", ar)
    \/ \E a \in Callers : revoke_identity(a, "idA", "ar_rev")
    \/ Tick

SpecOracles == InitOracles /\ [][NextOracles]_vars

\* ---- the fee split on its own, over the u64 range ----
FeePrices == {<<>>, <<1>>, <<3>>, <<9999>>, <<0, 1>>, <<1, 1>>, <<0, 100>>,
              <<7296, 9496, 42>>,                     \* 2^32
              <<7, 0, 0, 0, 100>>,                    \* 10^18 + 7
              <<956, 737, 6744, 1844>>,               \* 1844674407370956
              <<5808, 5477, 368, 3372, 922>>,         \* 2^63
              <<1616, 954, 737, 6744, 1844>>,         \* 2^64 - 10000
              <<1615, 955, 737, 6744, 1844>>}         \* 2^64 - 1
FeeRatesU16 == {0, 1, 250, 5000, 9999, 10000, 10001, 20000, 65535}

InitFee ==
    /\ registry = None
    /\ oracles = <<>>
    /\ identities = <<>>
    /\ permissions = <<>>
    /\ marketplace = None
    /\ listings = <<>>
    /\ tokens = [a \in TokenAccounts |-> IF a = "vault" THEN 0 ELSE InitBalance]
    /\ clock = 0
    /\ result = Reply("none", "Ok")
    /\ fee_price \in FeePrices
    /\ fee_bps \in FeeRatesU16
    /\ fee_out = None

\* purchase_data, lines 113-121, applied to (fee_price, fee_bps)
ComputeFee ==
    /\ fee_out = None
    /\ fee_out' = Some(FeeSplit(fee_price, fee_bps))
    /\ UNCHANGED <<ledger, clock, result, fee_price, fee_bps>>

NextFee == ComputeFee

SpecFee == InitFee /\ [][NextFee]_vars

(***************************************************************************)
(* Claims                                                                  *)
(***************************************************************************)

\* C3: for every u64 price and every fee rate in [0, 10000] basis points the
\* fee split succeeds with fee = floor(price * rate / 10000), that is
\* fee * 10000 <= price * rate < (fee + 1) * 10000, and with fee <= price and
\* net + fee = price; 1_000_000 at 250 bps gives 25_000 and 975_000, and 3 at
\* 1 bp gives 0 and 3.
C3_FeeExact ==
    (IsSome(fee_out) /\ fee_bps <= BASIS_POINTS) =>
        LET out == Unwrap(fee_out)
        IN  /\ out.code = "Ok"
            /\ Leq(MulSmall(out.fee, BASIS_POINTS), MulSmall(fee_price, fee_bps))
            /\ Less(MulSmall(fee_price, fee_bps),
                    MulSmall(Add(out.fee, <<1>>), BASIS_POINTS))
            /\ Leq(out.fee, fee_price)
            /\ Add(out.net, out.fee) = fee_price
            /\ (fee_price = <<0, 100>> /\ fee_bps = 250) =>
                  (out.fee = <<5000, 2>> /\ out.net = <<5000, 97>>)
            /\ (fee_price = <<3>> /\ fee_bps = 1) =>
                  (out.fee = <<>> /\ out.net = <<3>>)

\* C3 witness: the split of the largest u64 price at 250 bps has been computed
\* and left a nonzero fee.
C3_Witness ==
    /\ fee_price = <<1615, 955, 737, 6744, 1844>>
    /\ fee_bps = 250
    /\ IsSome(fee_out)
    /\ Unwrap(fee_out).code = "Ok"
    /\ Unwrap(fee_out).fee # <<>>

\* the permission ledger's category for a marketplace category: the six named
\* categories map to themselves, Custom(label) to Custom
MappedCategory(data_type) ==
    IF data_type.tag = "Custom" THEN "Custom" ELSE data_type.tag

\* C1: a purchase succeeds only if, in the state it is called in, the listing
\* is active, the listing's backing identity is Verified, the identity the
\* buyer presents is Verified and owned by the buyer, the grant keyed by
\* (seller identity, buyer) exists and is active, its category set contains
\* the listing's mapped category, and it has no expiry or the clock is
\* strictly before its expiry.
C1_PurchaseOnlyIfAuthorized ==
    [][result' = Reply("purchase_data", "Ok") =>
        \A b \in Actors, l \in ListingIds, i \in IdentityIds,
           from \in TokenAccounts, to \in TokenAccounts :
          purchase_data(b, l, i, from, to) =>
            /\ l \in DOMAIN listings
            /\ listings[l].is_active
            /\ listings[l].identity_id \in DOMAIN identities
            /\ identities[listings[l].identity_id].status = "Verified"
            /\ i \in DOMAIN identities
            /\ identities[i].status = "Verified"
            /\ identities[i].owner = b
            /\ <<listings[l].identity_id, b>> \in DOMAIN permissions
            /\ LET grant == permissions[<<listings[l].identity_id, b>>]
               IN  /\ grant.is_active
                   /\ Contains(grant.data_types, MappedCategory(listings[l].data_type))
                   /\ (grant.expires_at = None \/ clock < Unwrap(grant.expires_at))
      ]_vars

\* C1 witness: a purchase has succeeded under a grant that carries an expiry.
C1_Witness ==
    /\ result = Reply("purchase_data", "Ok")
    /\ 1 \in DOMAIN listings
    /\ listings[1].buyer = Some("bob")
    /\ <<"idA", "bob">> \in DOMAIN permissions
    /\ IsSome(permissions[<<"idA", "bob">>].expires_at)

\* floor(price * rate / 10000) on the small prices of the marketplace runs
FeeOf(price, rate) == (price * rate) \div BASIS_POINTS

\* C2: on every successful purchase of a listing with price p and fee f, the
\* buyer's token account is debited p, the token account of the listing's
\* recorded seller is credited p - f, the marketplace fee account is credited
\* f, and no other balance changes (so the total is conserved).
C2_SettlementExact ==
    [][result' = Reply("purchase_data", "Ok") =>
        \A b \in Actors, l \in ListingIds, i \in IdentityIds,
           from \in TokenAccounts, to \in TokenAccounts :
          purchase_data(b, l, i, from, to) =>
            LET p == listings[l].price
                f == FeeOf(p, Unwrap(marketplace).fee_basis_points)
                seller == listings[l].owner
            IN  \A acct \in TokenAccounts :
                  tokens'[acct] - tokens[acct] =
                      (IF acct = AssociatedTokenAccount(seller) THEN p - f ELSE 0)
                    + (IF acct = AssociatedTokenAccount(MarketplacePda) THEN f ELSE 0)
                    - (IF acct = AssociatedTokenAccount(b) THEN p ELSE 0)
      ]_vars

TransferFailures == {"InsufficientFunds(net)", "OwnerMismatch(net)",
                     "InsufficientFunds(fee)", "OwnerMismatch(fee)"}

\* C4: a purchase whose net transfer fails, or whose fee transfer fails after
\* the net transfer went through, fails as a whole: balances, listings and the
\* marketplace (and every other record) are those of the state it was called in.
C4_PurchaseAllOrNothing ==
    [][(result'.op = "purchase_data" /\ result'.code \in TransferFailures) =>
        \A b \in Actors, l \in ListingIds, i \in IdentityIds,
           from \in TokenAccounts, to \in TokenAccounts :
          purchase_data(b, l, i, from, to) =>
            /\ tokens' = tokens
            /\ listings' = listings
            /\ marketplace' = marketplace
            /\ UNCHANGED <<registry, oracles, identities, permissions>>
      ]_vars

\* C4 witness: a purchase has failed at the fee transfer, the buyer holding
\* enough for the net amount but not for the whole price.
C4_Witness ==
    /\ result = Reply("purchase_data", "InsufficientFunds(fee)")
    /\ 1 \in DOMAIN listings
    /\ listings[1].is_active
    /\ tokens["bob"] < listings[1].price
    /\ tokens["bob"] >= listings[1].price
                        - FeeOf(listings[1].price, Unwrap(marketplace).fee_basis_points)

\* C5 as stated: once a listing is inactive, every purchase, price update and
\* cancellation on it fails with ListingNotActive (whoever calls, whatever
\* accounts are passed), and no step changes or removes the listing record.
C5_InactiveAlwaysListingNotActive ==
    /\ [](\A l \in ListingIds :
            (l \in DOMAIN listings /\ ~listings[l].is_active) =>
              /\ \A b \in Actors, i \in IdentityIds,
                    from \in TokenAccounts, to \in TokenAccounts :
                   purchase_data_outcome(b, l, i, from, to).code = "ListingNotActive"
              /\ \A a \in Actors, p \in 1..MaxPrice :
                   update_listing_price_check(a, l, p) = "ListingNotActive"
              /\ \A a \in Actors :
                   cancel_listing_check(a, l) = "ListingNotActive")
    /\ [][\A l \in ListingIds :
            (l \in DOMAIN listings /\ ~listings[l].is_active) =>
              (l \in DOMAIN listings' /\ listings'[l] = listings[l])
         ]_vars

\* C5 (amended): an inactive listing is terminal.  In every state where a
\* listing is inactive, every purchase, price update and cancellation on it
\* fails, and fails with ListingNotActive whenever the call gets past account
\* validation (a purchase whose buyer identity and grant record exist; an
\* update or cancellation signed by the listing's owner); and no step changes
\* the record (active flag, price, buyer, sold-at, cancelled-at) or removes it.
C5_InactiveListingTerminal ==
    /\ [](\A l \in ListingIds :
            (l \in DOMAIN listings /\ ~listings[l].is_active) =>
              /\ \A b \in Actors, i \in IdentityIds,
                    from \in TokenAccounts, to \in TokenAccounts :
                   LET code == purchase_data_outcome(b, l, i, from, to).code
                   IN  /\ code # "Ok"
                       /\ purchase_data_accounts(b, l, i) = "Ok"
                             => code = "ListingNotActive"
              /\ \A a \in Actors, p \in 1..MaxPrice :
                   LET code == update_listing_price_check(a, l, p)
                   IN  /\ code # "Ok"
                       /\ listings[l].owner = a => code = "ListingNotActive"
              /\ \A a \in Actors :
                   LET code == cancel_listing_check(a, l)
                   IN  /\ code # "Ok"
                       /\ listings[l].owner = a => code = "ListingNotActive")
    /\ [][\A l \in ListingIds :
            (l \in DOMAIN listings /\ ~listings[l].is_active) =>
              (l \in DOMAIN listings' /\ listings'[l] = listings[l])
         ]_vars

\* C5 witness: the listing was sold, and its owner's later cancellation has
\* failed with ListingNotActive.
C5_Witness ==
    /\ 1 \in DOMAIN listings
    /\ ~listings[1].is_active
    /\ IsSome(listings[1].buyer)
    /\ listings[1].cancelled_at = None
    /\ result = Reply("cancel_listing", "ListingNotActive")

AllowedStatusMoves ==
    {<<"Pending", "Pending">>, <<"Pending", "Verified">>, <<"Pending", "Revoked">>,
     <<"Verified", "Verified">>, <<"Verified", "Revoked">>, <<"Revoked", "Revoked">>}

\* C6: in every step an identity's status stays or moves Pending -> Verified,
\* Pending -> Revoked or Verified -> Revoked (never back to Pending, never
\* from Revoked to Verified); an identity record is never removed, a new one
\* starts Pending, and no identity ever has status Suspended.
C6_StatusTransitions ==
    [][\A i \in IdentityIds :
        /\ i \in DOMAIN identities =>
              /\ i \in DOMAIN identities'
              /\ <<identities[i].status, identities'[i].status>> \in AllowedStatusMoves
        /\ (i \notin DOMAIN identities /\ i \in DOMAIN identities') =>
              identities'[i].status = "Pending"
        /\ i \in DOMAIN identities' => identities'[i].status # "Suspended"
      ]_vars

\* C6 witness: an identity that was verified has been revoked.
C6_Witness ==
    /\ "idA" \in DOMAIN identities
    /\ identities["idA"].status = "Revoked"
    /\ IsSome(identities["idA"].verified_at)
    /\ result = Reply("revoke_identity", "Ok")

\* C7: verify_identity succeeds only on an identity whose status is Pending;
\* called by a registered oracle on an identity that is Verified or Revoked it
\* fails with InvalidStatus and leaves every identity (status, level,
\* verified-at, evidence reference) and every oracle's counters as they were.
C7_VerifyOnlyPending ==
    [][(result'.op = "verify_identity") =>
        \A o \in Actors, i \in IdentityIds, lv \in VerificationInputs,
           ar \in {"ar_kyc", "ar_long"} :
          verify_identity(o, i, lv, ar) =>
            /\ result'.code = "Ok" =>
                  (i \in DOMAIN identities /\ identities[i].status = "Pending")
            /\ (/\ i \in DOMAIN identities
                /\ o \in DOMAIN oracles
                /\ identities[i].status \in {"Verified", "Revoked"}) =>
                  /\ result'.code = "InvalidStatus"
                  /\ identities' = identities
                  /\ oracles' = oracles
      ]_vars

\* C7 witness: a second verification of an already Verified identity has
\* failed with InvalidStatus.
C7_Witness ==
    /\ "idA" \in DOMAIN identities
    /\ identities["idA"].status = "Verified"
    /\ "carol" \in DOMAIN oracles
    /\ oracles["carol"].verification_count = 1
    /\ result = Reply("verify_identity", "InvalidStatus")

\* a grant that validate_access would accept but for its expiry
OtherwiseValidGrant(c, i, dt) ==
    /\ <<i, c>> \in DOMAIN permissions
    /\ i \in DOMAIN identities
    /\ identities[i].status = "Verified"
    /\ permissions[<<i, c>>].is_active
    /\ Contains(permissions[<<i, c>>].data_types, dt)

\* C8: on an otherwise valid grant with expiry E, validate_access succeeds when
\* the clock is strictly before E and fails with PermissionExpired when the
\* clock is at or past E; and a grant that has reached its expiry stays past
\* it in every later state (the record stays, its expiry is never rewritten,
\* the clock never goes back).
C8_ExpiryBoundary ==
    [][/\ (result'.op = "validate_access") =>
            \A c \in Actors, i \in IdentityIds, dt \in IdentityDataType :
              (validate_access(c, i, dt) /\ OtherwiseValidGrant(c, i, dt)
                 /\ IsSome(permissions[<<i, c>>].expires_at)) =>
                /\ clock < Unwrap(permissions[<<i, c>>].expires_at)
                      => result'.code = "Ok"
                /\ clock >= Unwrap(permissions[<<i, c>>].expires_at)
                      => result'.code = "PermissionExpired"
       /\ \A k \in DOMAIN permissions :
            (IsSome(permissions[k].expires_at)
               /\ clock >= Unwrap(permissions[k].expires_at)) =>
              /\ k \in DOMAIN permissions'
              /\ permissions'[k].expires_at = permissions[k].expires_at
              /\ clock' >= Unwrap(permissions[k].expires_at)
      ]_vars

\* C8 witness: validation of an otherwise valid grant has failed exactly at
\* its expiry time.
C8_Witness ==
    /\ OtherwiseValidGrant("bob", "idA", "HealthData")
    /\ permissions[<<"idA", "bob">>].expires_at = Some(clock)
    /\ result = Reply("validate_access", "PermissionExpired")

\* C9: an identity whose status is Revoked stays Revoked, and from then on no
\* validate_access on a grant it backs, no grant_access and no
\* create_data_listing backed by it, and no purchase_data in which it backs the
\* listing or is the identity the buyer presents, succeeds.
C9_RevokedIsFinal ==
    [][\A r \in IdentityIds :
        (r \in DOMAIN identities /\ identities[r].status = "Revoked") =>
          /\ r \in DOMAIN identities'
          /\ identities'[r].status = "Revoked"
          /\ (result' = Reply("validate_access", "Ok")) =>
                \A c \in Actors, dt \in IdentityDataType : ~validate_access(c, r, dt)
          /\ (result' = Reply("grant_access", "Ok")) =>
                \A a \in Actors, c \in Actors, dts \in MarketDataTypeLists,
                   ex \in Expiries :
                  ~grant_access(a, r, c, "ReadOnly", dts, ex, "ar_grant")
          /\ (result' = Reply("create_data_listing", "Ok")) =>
                \A a \in Actors, l \in ListingIds, p \in 1..MaxPrice,
                   dt \in {Named("HealthData"), Custom("x")} :
                  ~create_data_listing(a, l, p, dt, r)
          /\ (result' = Reply("purchase_data", "Ok")) =>
                \A b \in Actors, l \in ListingIds, i \in IdentityIds,
                   from \in TokenAccounts, to \in TokenAccounts :
                  (l \in DOMAIN listings
                     /\ (i = r \/ listings[l].identity_id = r)) =>
                    ~purchase_data(b, l, i, from, to)
      ]_vars

\* C9 witness: the seller's identity is Revoked, the grant it backs is still
\* active, and validate_access on that grant has failed.
C9_Witness ==
    /\ identities["idA"].status = "Revoked"
    /\ <<"idA", "bob">> \in DOMAIN permissions
    /\ permissions[<<"idA", "bob">>].is_active
    /\ result = Reply("validate_access", "IdentityNotVerified")

\* C10: in every state, grant_access with an empty list or a list of more than
\* 10 data types fails; called by the owner of a Verified identity for a
\* consumer that has no grant yet, it fails with NoDataTypes on the empty list
\* and with TooManyDataTypes on more than 10 entries, and with 1 to 10 entries
\* (and an evidence reference within its limit) it succeeds.  A grant_access
\* that fails leaves the grants as they were, one that succeeds stores the
\* list it was given, and every stored grant has between 1 and 10 data types.
C10_GrantCategoryBounds ==
    /\ [](\A a \in Actors, i \in IdentityIds, c \in Actors,
             dts \in DataTypeLists, ex \in Expiries,
             ar \in {"ar_grant", "ar_long"} :
            LET code == grant_access_check(a, i, c, "ReadOnly", dts, ex, ar)
            IN  /\ (Len(dts) = 0 \/ Len(dts) > MAX_DATA_TYPES) => code # "Ok"
                /\ (/\ i \in DOMAIN identities
                    /\ identities[i].status = "Verified"
                    /\ identities[i].owner = a
                    /\ <<i, c>> \notin DOMAIN permissions) =>
                      /\ Len(dts) = 0 => code = "NoDataTypes"
                      /\ Len(dts) > MAX_DATA_TYPES => code = "TooManyDataTypes"
                      /\ (Len(dts) \in 1..MAX_DATA_TYPES
                            /\ StrLen(ar) <= MAX_ARWEAVE_TX_ID_LEN) => code = "Ok")
    /\ [](\A k \in DOMAIN permissions :
            Len(permissions[k].data_types) \in 1..MAX_DATA_TYPES)
    /\ [][/\ (result'.op = "grant_access" /\ result'.code # "Ok") =>
                permissions' = permissions
          /\ (result' = Reply("grant_access", "Ok")) =>
                \A a \in Actors, i \in IdentityIds, c \in Actors,
                   dts \in DataTypeLists, ex \in Expiries,
                   ar \in {"ar_grant", "ar_long"} :
                  grant_access(a, i, c, "ReadOnly", dts, ex, ar) =>
                    /\ <<i, c>> \in DOMAIN permissions'
                    /\ permissions'[<<i, c>>].data_types = dts
                    /\ Len(dts) \in 1..MAX_DATA_TYPES
         ]_vars

\* C10 witness: a grant carrying exactly 10 data types has been stored.
C10_Witness ==
    /\ result = Reply("grant_access", "Ok")
    /\ <<"idA", "bob">> \in DOMAIN permissions
    /\ Len(permissions[<<"idA", "bob">>].data_types) = MAX_DATA_TYPES

\* C11: for an authority that has no oracle yet, register_oracle fails with
\* InsufficientStake whenever stake_amount < minimum_stake (minimum_stake - 1
\* included) and succeeds whenever stake_amount >= minimum_stake
\* (minimum_stake itself included).  A register_oracle that fails creates no
\* oracle and leaves the registry (its oracle count) as it was; one that
\* succeeds creates an oracle with both verification counters 0, reputation
\* 5000 and active, and raises the oracle count by exactly 1.
C11_StakeBoundary ==
    /\ [](\A o \in Actors, st \in 0..(MaxStake + 1) :
            (IsSome(registry) /\ o \notin DOMAIN oracles) =>
              LET code == register_oracle_check(o, st)
              IN  /\ st < Unwrap(registry).minimum_stake => code = "InsufficientStake"
                  /\ st >= Unwrap(registry).minimum_stake => code = "Ok")
    /\ [][/\ (result'.op = "register_oracle" /\ result'.code # "Ok") =>
                (oracles' = oracles /\ registry' = registry)
          /\ (result' = Reply("register_oracle", "Ok")) =>
                \A o \in Actors, st \in 0..MaxStake :
                  register_oracle(o, st) =>
                    /\ st >= Unwrap(registry).minimum_stake
                    /\ o \notin DOMAIN oracles
                    /\ DOMAIN oracles' = DOMAIN oracles \cup {o}
                    /\ \A other \in DOMAIN oracles : oracles'[other] = oracles[other]
                    /\ oracles'[o].verification_count = 0
                    /\ oracles'[o].successful_verifications = 0
                    /\ oracles'[o].reputation_score = INITIAL_REPUTATION
                    /\ oracles'[o].is_active
                    /\ Unwrap(registry').oracle_count = Unwrap(registry).oracle_count + 1
         ]_vars

\* C11 witness: an oracle has been registered with a stake equal to the
\* minimum stake, the minimum being above 1.
C11_Witness ==
    /\ result = Reply("register_oracle", "Ok")
    /\ IsSome(registry)
    /\ Unwrap(registry).minimum_stake > 1
    /\ "carol" \in DOMAIN oracles
    /\ oracles["carol"].stake_amount = Unwrap(registry).minimum_stake
    /\ Unwrap(registry).oracle_count = 1

\* a purchase of listing l by buyer b presenting identity i that meets every
\* requirement but, possibly, the grant's category set
PurchaseValidButCategory(b, l, i) ==
    /\ l \in DOMAIN listings
    /\ IsSome(marketplace)
    /\ listings[l].is_active
    /\ listings[l].identity_id \in DOMAIN identities
    /\ identities[listings[l].identity_id].status = "Verified"
    /\ identities[listings[l].identity_id].owner = listings[l].owner
    /\ i \in DOMAIN identities
    /\ identities[i].status = "Verified"
    /\ identities[i].owner = b
    /\ <<listings[l].identity_id, b>> \in DOMAIN permissions
    /\ permissions[<<listings[l].identity_id, b>>].is_active
    /\ LET e == permissions[<<listings[l].identity_id, b>>].expires_at
       IN  e = None \/ clock < Unwrap(e)

\* C12: when the buyer's grant from the seller's identity is active and
\* unexpired but does not contain the listing's mapped category, purchase_data
\* ends DataTypeNotAuthorized (whatever token accounts are passed); and a
\* purchase_data that ends DataTypeNotAuthorized moves no tokens and leaves the
\* listings (still active, no buyer, no sold-at) and the marketplace (volume)
\* as they were.
C12_CategoryMismatch ==
    /\ [](\A b \in Actors, l \in ListingIds, i \in IdentityIds,
             from \in TokenAccounts, to \in TokenAccounts :
            (/\ PurchaseValidButCategory(b, l, i)
             /\ ~Contains(permissions[<<listings[l].identity_id, b>>].data_types,
                          MappedCategory(listings[l].data_type))) =>
              purchase_data_outcome(b, l, i, from, to).code = "DataTypeNotAuthorized")
    /\ [][(result' = Reply("purchase_data", "DataTypeNotAuthorized")) =>
            /\ tokens' = tokens
            /\ listings' = listings
            /\ marketplace' = marketplace
         ]_vars

\* C12 witness: the purchase of a HealthData listing under an active,
\* unexpired grant without HealthData has failed with DataTypeNotAuthorized,
\* the listing still being open.
C12_Witness ==
    /\ result = Reply("purchase_data", "DataTypeNotAuthorized")
    /\ PurchaseValidButCategory("bob", 1, "idB")
    /\ listings[1].data_type = Named("HealthData")
    /\ ~Contains(permissions[<<"idA", "bob">>].data_types, "HealthData")
    /\ Contains(permissions[<<"idA", "bob">>].data_types, "AppUsage")
    /\ listings[1].buyer = None
    /\ listings[1].sold_at = None

\* C13: on a listing that has been cancelled, cancel_listing fails for every
\* caller and fails with ListingNotActive when the owner (who cancelled it)
\* calls again; such a call, like every other step, leaves cancelled_at and
\* every other field of the listing as the first cancellation left them.
C13_SecondCancelFails ==
    /\ [](\A l \in ListingIds, a \in Actors :
            (l \in DOMAIN listings /\ IsSome(listings[l].cancelled_at)) =>
              LET code == cancel_listing_check(a, l)
              IN  /\ code # "Ok"
                  /\ a = listings[l].owner => code = "ListingNotActive")
    /\ [][\A l \in ListingIds :
            (l \in DOMAIN listings /\ IsSome(listings[l].cancelled_at)) =>
              /\ l \in DOMAIN listings'
              /\ listings'[l].cancelled_at = listings[l].cancelled_at
              /\ (result'.op = "cancel_listing") => listings'[l] = listings[l]
         ]_vars

\* C13 witness: the owner's second cancellation, made after the clock has
\* moved on, has failed with ListingNotActive and the listing still carries
\* the time of the first.
C13_Witness ==
    /\ result = Reply("cancel_listing", "ListingNotActive")
    /\ 1 \in DOMAIN listings
    /\ listings[1].cancelled_at = Some(0)
    /\ listings[1].buyer = None
    /\ clock = 1

\* the state the scenario's steps lead to: an oracle registered with a stake at
\* or above the minimum, the seller's identity Verified, an active grant of
\* HealthData without expiry to consumer c, an open HealthData listing l by the
\* identity's owner; and consumer c set up to buy (a Verified identity i of
\* its own, at least the price in its token account)
ScenarioReady(c, l, i) ==
    /\ IsSome(registry)
    /\ \E o \in DOMAIN oracles :
          oracles[o].stake_amount >= Unwrap(registry).minimum_stake
    /\ IsSome(marketplace)
    /\ l \in DOMAIN listings
    /\ listings[l].is_active
    /\ listings[l].data_type = Named("HealthData")
    /\ listings[l].identity_id \in DOMAIN identities
    /\ identities[listings[l].identity_id].status = "Verified"
    /\ identities[listings[l].identity_id].owner = listings[l].owner
    /\ <<listings[l].identity_id, c>> \in DOMAIN permissions
    /\ permissions[<<listings[l].identity_id, c>>].is_active
    /\ permissions[<<listings[l].identity_id, c>>].expires_at = None
    /\ Contains(permissions[<<listings[l].identity_id, c>>].data_types, "HealthData")
    /\ i \in DOMAIN identities
    /\ identities[i].status = "Verified"
    /\ identities[i].owner = c
    /\ tokens[AssociatedTokenAccount(c)] >= listings[l].price

\* C14: after the scenario's steps, every purchase by consumer C paying from
\* its own token account succeeds and leaves the listing inactive with
\* buyer = C, the marketplace volume raised by the price, the seller's token
\* account credited price - fee and the marketplace fee account credited fee.
C14_EndToEnd ==
    [][(result'.op = "purchase_data") =>
        \A c \in Actors, l \in ListingIds, i \in IdentityIds, to \in TokenAccounts :
          (ScenarioReady(c, l, i)
             /\ purchase_data(c, l, i, AssociatedTokenAccount(c), to)) =>
            LET p == listings[l].price
                f == FeeOf(p, Unwrap(marketplace).fee_basis_points)
                seller == AssociatedTokenAccount(listings[l].owner)
                vault == AssociatedTokenAccount(MarketplacePda)
            IN  /\ result'.code = "Ok"
                /\ ~listings'[l].is_active
                /\ listings'[l].buyer = Some(c)
                /\ Unwrap(marketplace').total_volume
                      = Unwrap(marketplace).total_volume + p
                /\ tokens'[seller] = tokens[seller] + (p - f)
                /\ tokens'[vault] = tokens[vault] + f
      ]_vars

\* C15: in every reachable state the marketplace's stored fee rate is within
\* [0, 10000] basis points, and no step changes the rate once it is stored.
C15_FeeRateInRange ==
    /\ [](IsSome(marketplace) =>
            Unwrap(marketplace).fee_basis_points \in 0..BASIS_POINTS)
    /\ [][IsSome(marketplace) =>
            /\ IsSome(marketplace')
            /\ Unwrap(marketplace').fee_basis_points
                  = Unwrap(marketplace).fee_basis_points
         ]_vars

\* C16: for every stored price and stored fee rate the fee split either fails
\* with ArithmeticOverflow or yields exactly fee = floor(price * rate / 10000)
\* and net = price - fee; it never yields an amount obtained by wrap-around
\* or by truncation to 64 bits.
C16_OverflowDetected ==
    IsSome(fee_out) =>
        LET out == Unwrap(fee_out)
        IN  \/ out.code = "ArithmeticOverflow"
            \/ /\ out.code = "Ok"
               /\ Leq(MulSmall(out.fee, BASIS_POINTS), MulSmall(fee_price, fee_bps))
               /\ Less(MulSmall(fee_price, fee_bps),
                       MulSmall(Add(out.fee, <<1>>), BASIS_POINTS))
               /\ Add(out.net, out.fee) = fee_price

\* the errors an instruction can end with: the two programs' ErrorCode, the
\* framework's account-validation errors and the token program's errors
TypedErrors ==
    {"InsufficientStake", "OracleNotActive", "IdentityIdTooLong",
     "ArweaveTxIdTooLong", "InvalidStatus", "IdentityNotVerified", "Unauthorized",
     "PermissionNotActive", "DataTypeNotAuthorized", "PermissionExpired",
     "NoDataTypes", "TooManyDataTypes",
     "ListingNotActive", "InvalidListingId", "InsufficientFunds", "InvalidPrice",
     "SellerNotVerified", "BuyerNotVerified", "IdentityMismatch",
     "NoAccessPermission", "ArithmeticOverflow",
     "AccountNotInitialized", "AccountAlreadyInUse", "ConstraintHasOne",
     "OwnerMismatch"} \cup TransferFailures

PurchaseChecks(b, l, i) ==
    IF purchase_data_accounts(b, l, i) # "Ok" THEN purchase_data_accounts(b, l, i)
    ELSE purchase_data_requires(b, l, listings[l],
                                identities[listings[l].identity_id], identities[i],
                                permissions[<<listings[l].identity_id, b>>], clock)

\* the error of purchase_data that answers to an error of validate_access
PurchaseErrorFor(code) ==
    CASE code = "IdentityNotVerified" -> "SellerNotVerified"
      [] code = "PermissionNotActive" -> "NoAccessPermission"
      [] OTHER -> code

\* C18: in every state (and so at every clock value), for every buyer and
\* every listing whose other purchase requirements are met (the listing is
\* active and its backing identity belongs to its owner, the identity the
\* buyer presents is Verified and the buyer's own), purchase_data passes its
\* seller-identity, grant, category and expiry checks exactly when
\* validate_access(seller identity, buyer, mapped category) succeeds, and
\* fails them exactly when validate_access fails, at the matching check.
C18_PurchaseAgreesWithValidate ==
    \A b \in Actors, l \in ListingIds, i \in IdentityIds :
      (/\ l \in DOMAIN listings
       /\ IsSome(marketplace)
       /\ listings[l].is_active
       /\ listings[l].identity_id \in DOMAIN identities
       /\ identities[listings[l].identity_id].owner = listings[l].owner
       /\ i \in DOMAIN identities
       /\ identities[i].status = "Verified"
       /\ identities[i].owner = b) =>
        LET validated == validate_access_check(b, listings[l].identity_id,
                                               MappedCategory(listings[l].data_type))
        IN  /\ (PurchaseChecks(b, l, i) = "Ok") <=> (validated = "Ok")
            /\ PurchaseChecks(b, l, i) = PurchaseErrorFor(validated)

\* C18 witness: a purchase has failed on an expired grant in a state where
\* validate_access fails on the same grant for the same reason.
C18_Witness ==
    /\ result = Reply("purchase_data", "PermissionExpired")
    /\ 1 \in DOMAIN listings
    /\ listings[1].is_active
    /\ validate_access_check("bob", "idA", MappedCategory(listings[1].data_type))
          = "PermissionExpired"

\* C19: a grant record is keyed by its (identity, consumer) pair, and
\* revocation is permanent.  While a pair has a record, grant_access for that
\* pair fails because the key is taken; once the record is inactive,
\* revoke_access on it fails (with PermissionNotActive when the identity's
\* owner calls), and validate_access and purchase_data fail for the pair; and
\* no step removes a record or turns an inactive record active again.
C19_RevocationPermanent ==
    /\ [](\A k \in DOMAIN permissions :
            /\ permissions[k].identity_id = k[1]
            /\ permissions[k].consumer = k[2]
            /\ \A a \in Actors, dts \in MarketDataTypeLists, ex \in Expiries :
                 grant_access_check(a, k[1], k[2], "ReadOnly", dts, ex, "ar_grant")
                    = "AccountAlreadyInUse"
            /\ ~permissions[k].is_active =>
                 /\ \A a \in Actors :
                      LET code == revoke_access_check(a, k[1], k[2], "ar_ungrant")
                      IN  /\ code # "Ok"
                          /\ (k[1] \in DOMAIN identities
                                /\ identities[k[1]].owner = a)
                                => code = "PermissionNotActive"
                 /\ \A dt \in IdentityDataType :
                      validate_access_check(k[2], k[1], dt) # "Ok"
                 /\ \A l \in DOMAIN listings, i \in IdentityIds,
                       from \in TokenAccounts, to \in TokenAccounts :
                      listings[l].identity_id = k[1] =>
                        purchase_data_outcome(k[2], l, i, from, to).code # "Ok")
    /\ [][\A k \in DOMAIN permissions :
            /\ k \in DOMAIN permissions'
            /\ ~permissions[k].is_active => ~permissions'[k].is_active
         ]_vars

\* C19 witness: after a revocation, a new grant for the same pair has been
\* refused because the key is taken, the record being inactive still.
C19_Witness ==
    /\ result = Reply("grant_access", "AccountAlreadyInUse")
    /\ <<"idA", "bob">> \in DOMAIN permissions
    /\ ~permissions[<<"idA", "bob">>].is_active
    /\ identities["idA"].status = "Verified"

\* the summed price of the listings that have been sold
RECURSIVE SoldValue(_)
SoldValue(ls) ==
    IF ls = {} THEN 0
    ELSE LET l == CHOOSE x \in ls : TRUE
         IN  (IF IsSome(listings[l].sold_at) THEN listings[l].price ELSE 0)
             + SoldValue(ls \ {l})

\* C20: under every interleaving of purchases by two authorized buyers and
\* cancellations on the same listing, at most one of them succeeds: a listing
\* is never both sold and cancelled, it has a buyer exactly when it is sold,
\* a sold listing keeps its one buyer, the tokens that have left the buyers
\* (to the seller and the fee account) and the marketplace volume equal the
\* price of the one sale, and a purchase or cancellation that succeeds was
\* made on an active listing.
C20_AtMostOneWins ==
    /\ [](\A l \in DOMAIN listings :
            /\ ~(IsSome(listings[l].sold_at) /\ IsSome(listings[l].cancelled_at))
            /\ IsSome(listings[l].buyer) <=> IsSome(listings[l].sold_at)
            /\ listings[l].is_active <=>
                 (listings[l].sold_at = None /\ listings[l].cancelled_at = None))
    /\ [](IsSome(marketplace) =>
            /\ Unwrap(marketplace).total_volume = SoldValue(DOMAIN listings)
            /\ tokens[AssociatedTokenAccount("alice")]
                 + tokens[AssociatedTokenAccount(MarketplacePda)]
                 = InitBalance + SoldValue(DOMAIN listings)
            /\ tokens["bob"] + tokens["carol"]
                 = 2 * InitBalance - SoldValue(DOMAIN listings))
    /\ [][\A l \in DOMAIN listings :
            /\ IsSome(listings[l].buyer) => listings'[l] = listings[l]
            /\ IsSome(listings[l].cancelled_at) => listings'[l] = listings[l]
            /\ (result' \in {Reply("purchase_data", "Ok"), Reply("cancel_listing", "Ok")}
                  /\ listings'[l] # listings[l]) => listings[l].is_active
         ]_vars

\* C20 witness: both buyers hold an active grant, the listing has been sold to
\* carol, and a further purchase has failed with ListingNotActive.
C20_Witness ==
    /\ result = Reply("purchase_data", "ListingNotActive")
    /\ 1 \in DOMAIN listings
    /\ listings[1].buyer = Some("carol")
    /\ \A b \in Buyers : /\ <<"idA", b>> \in DOMAIN permissions
                         /\ permissions[<<"idA", b>>].is_active
    /\ tokens["bob"] = InitBalance

\* the authorization of buyer b (presenting identity i) for listing l has been
\* withdrawn: the grant is revoked or expired, or the seller's or the buyer's
\* identity is no longer Verified
AuthorizationWithdrawn(b, l, i) ==
    /\ purchase_data_accounts(b, l, i) = "Ok"
    /\ LET sid == listings[l].identity_id
           grant == permissions[<<sid, b>>]
       IN  \/ ~grant.is_active
           \/ IsSome(grant.expires_at) /\ clock >= Unwrap(grant.expires_at)
           \/ identities[sid].status # "Verified"
           \/ identities[i].status # "Verified"

\* C21: a purchase is judged on the grant and the identities as they are when
\* it runs.  Once revoke_access on the buyer's grant or revoke_identity on the
\* seller's or the buyer's identity has succeeded, or the grant's expiry has
\* been reached, the authorization is withdrawn in the state that follows and
\* stays withdrawn in every later state, and in every state where it is
\* withdrawn every purchase by that buyer fails and a purchase step changes
\* nothing.
C21_NoStaleAuthorization ==
    /\ [](\A b \in Actors, l \in ListingIds, i \in IdentityIds :
            AuthorizationWithdrawn(b, l, i) =>
              \A from \in TokenAccounts, to \in TokenAccounts :
                purchase_data_outcome(b, l, i, from, to).code
                  \in {"ListingNotActive", "SellerNotVerified", "BuyerNotVerified",
                       "IdentityMismatch", "NoAccessPermission", "PermissionExpired"})
    /\ [][/\ \A k \in DOMAIN permissions :
               /\ k \in DOMAIN permissions'
               /\ permissions'[k].expires_at = permissions[k].expires_at
               /\ ~permissions[k].is_active => ~permissions'[k].is_active
          /\ clock' >= clock
          /\ \A i \in DOMAIN identities :
               /\ i \in DOMAIN identities'
               /\ identities[i].status = "Revoked" => identities'[i].status = "Revoked"
          /\ (result' = Reply("revoke_access", "Ok") /\ permissions' # permissions) =>
               \E k \in DOMAIN permissions :
                  permissions[k].is_active /\ ~permissions'[k].is_active
          /\ result' = Reply("revoke_identity", "Ok") =>
               \E i \in DOMAIN identities :
                  identities'[i].status = "Revoked"
          /\ result'.op = "purchase_data" =>
               \A b \in Actors, l \in ListingIds, i \in IdentityIds :
                  (/\ AuthorizationWithdrawn(b, l, i)
                   /\ \E from \in TokenAccounts, to \in TokenAccounts :
                         purchase_data(b, l, i, from, to))
                    => (result'.code # "Ok" /\ ledger' = ledger)
         ]_vars

\* C21 witness: bob's purchase, made after his grant was revoked, has failed
\* with NoAccessPermission; both identities are still Verified, the listing is
\* still open and bob has paid nothing.
C21_Witness ==
    /\ result = Reply("purchase_data", "NoAccessPermission")
    /\ 1 \in DOMAIN listings
    /\ listings[1].is_active
    /\ <<"idA", "bob">> \in DOMAIN permissions
    /\ ~permissions[<<"idA", "bob">>].is_active
    /\ permissions[<<"idA", "bob">>].arweave_proof_tx_id = "ar_ungrant"
    /\ identities["idA"].status = "Verified"
    /\ identities["idB"].status = "Verified"
    /\ tokens["bob"] = InitBalance

\* the summed price of the listings sold in this step
RECURSIVE NewlySoldValue(_)
NewlySoldValue(ls) ==
    IF ls = {} THEN 0
    ELSE LET l == CHOOSE x \in ls : TRUE
         IN  (IF listings[l].sold_at = None /\ IsSome(listings'[l].sold_at)
              THEN listings[l].price ELSE 0)
             + NewlySoldValue(ls \ {l})

\* C22: total_listings equals the number of listings created and total_volume
\* the sum of the (gross) prices of the sold listings, in every state; every
\* step leaves the marketplace in place, adds to total_listings 1 when a
\* listing is created and 0 otherwise, and adds to total_volume the gross
\* price of the listing sold and 0 otherwise; a successful create_data_listing
\* creates a listing and a successful purchase_data sells one.
C22_CountersOnlyGrow ==
    /\ [](IsSome(marketplace) =>
            /\ Unwrap(marketplace).total_listings = Cardinality(DOMAIN listings)
            /\ Unwrap(marketplace).total_volume = SoldValue(DOMAIN listings))
    /\ [][IsSome(marketplace) =>
            /\ IsSome(marketplace')
            /\ DOMAIN listings \subseteq DOMAIN listings'
            /\ Unwrap(marketplace').total_listings
                 = Unwrap(marketplace).total_listings
                   + Cardinality(DOMAIN listings' \ DOMAIN listings)
            /\ Unwrap(marketplace').total_volume
                 = Unwrap(marketplace).total_volume + NewlySoldValue(DOMAIN listings)
            /\ result' = Reply("create_data_listing", "Ok") =>
                 Unwrap(marketplace').total_listings
                   = Unwrap(marketplace).total_listings + 1
            /\ result' = Reply("purchase_data", "Ok") =>
                 \E l \in DOMAIN listings :
                    /\ listings[l].is_active /\ ~listings'[l].is_active
                    /\ Unwrap(marketplace').total_volume
                         = Unwrap(marketplace).total_volume + listings[l].price
         ]_vars

\* C22 witness: two listings have been created, one sold at a price on which a
\* fee was taken (so gross and net differ) and the other cancelled.
C22_Witness ==
    /\ IsSome(marketplace)
    /\ Unwrap(marketplace).total_listings = 2
    /\ DOMAIN listings = {1, 2}
    /\ IsSome(listings[1].sold_at)
    /\ IsSome(listings[2].cancelled_at)
    /\ tokens["vault"] > 0
    /\ Unwrap(marketplace).total_volume = listings[1].price

\* the code purchase_data's require! lines end with for buyer b presenting
\* identity i, on listing l as it is but with category dt
RequiresWithCategory(b, l, i, dt) ==
    purchase_data_requires(b, l, [listings[l] EXCEPT !.data_type = dt],
                           identities[listings[l].identity_id], identities[i],
                           permissions[<<listings[l].identity_id, b>>], clock)

\* C23: for a listing, a buyer and the buyer's grant, purchase_data ends with
\* the same code whatever the label of a Custom category is; with the checks
\* before the category check passing, a Custom(label) listing passes the
\* category check exactly when the grant's data_types contain Custom, and a
\* listing of one of the six named categories exactly when they contain that
\* same category; and a purchase that succeeds was made under a grant that
\* contains the listing's category so mapped.
C23_CustomLabelIgnored ==
    /\ [](\A b \in Actors, l \in ListingIds, i \in IdentityIds :
            purchase_data_accounts(b, l, i) = "Ok" =>
              LET grant == permissions[<<listings[l].identity_id, b>>]
                  Reached(dt) == RequiresWithCategory(b, l, i, dt)
                                   \in {"Ok", "DataTypeNotAuthorized", "PermissionExpired"}
                  Passed(dt) == RequiresWithCategory(b, l, i, dt)
                                   \in {"Ok", "PermissionExpired"}
              IN  /\ \A a1 \in CustomLabels, a2 \in CustomLabels :
                        RequiresWithCategory(b, l, i, Custom(a1))
                          = RequiresWithCategory(b, l, i, Custom(a2))
                  /\ \A a \in CustomLabels :
                        Reached(Custom(a)) =>
                          (Passed(Custom(a)) <=> Contains(grant.data_types, "Custom"))
                  /\ \A t \in NamedDataTypes :
                        Reached(Named(t)) =>
                          (Passed(Named(t)) <=> Contains(grant.data_types, t)))
    /\ [][(result' = Reply("purchase_data", "Ok") /\ listings' # listings) =>
            \E l \in DOMAIN listings :
               /\ listings[l].is_active /\ ~listings'[l].is_active
               /\ Contains(permissions[<<listings[l].identity_id,
                                         Unwrap(listings'[l].buyer)>>].data_types,
                           MappedCategory(listings[l].data_type))
         ]_vars

\* C23 witness: a listing under Custom("HealthData") has been bought under a
\* grant that contains Custom and does not contain HealthData.
C23_Witness ==
    /\ result = Reply("purchase_data", "Ok")
    /\ 1 \in DOMAIN listings
    /\ listings[1].data_type = Custom("HealthData")
    /\ listings[1].buyer = Some("bob")
    /\ Contains(permissions[<<"idA", "bob">>].data_types, "Custom")
    /\ ~Contains(permissions[<<"idA", "bob">>].data_types, "HealthData")

RevocationRefs == {"ar_rev", "ar_kyc", "ar_long"}

\* C25: on an existing identity, whatever its status, revoke_identity by the
\* owner with a reference of at most 128 bytes succeeds (with a longer one it
\* ends ArweaveTxIdTooLong) and by anyone else fails; a successful call leaves
\* that identity with status Revoked and the reference passed in and changes
\* nothing else (owner, verification level, verified_at, other accounts), a
\* failed call changes nothing; a Revoked identity stays Revoked with its
\* verified_at as it was, and verify_identity on it fails for every oracle, so
\* one revoked while Pending is never verified.
C25_RevokeFromAnyStatus ==
    /\ [](\A i \in DOMAIN identities, a \in Actors, ar \in RevocationRefs :
            /\ a = identities[i].owner =>
                 revoke_identity_check(a, i, ar) =
                   (IF StrLen(ar) <= MAX_ARWEAVE_TX_ID_LEN THEN "Ok"
                    ELSE "ArweaveTxIdTooLong")
            /\ a # identities[i].owner => revoke_identity_check(a, i, ar) # "Ok")
    /\ [](\A i \in DOMAIN identities :
            identities[i].status = "Revoked" =>
              \A o \in Actors, lv \in VerificationLevel, ar \in {"ar_kyc"} :
                 verify_identity_check(o, i, lv, ar) # "Ok")
    /\ [][/\ \A i \in DOMAIN identities :
               identities[i].status = "Revoked" =>
                 /\ i \in DOMAIN identities'
                 /\ identities'[i].status = "Revoked"
                 /\ identities'[i].verified_at = identities[i].verified_at
          /\ result'.op = "revoke_identity" =>
               /\ result'.code # "Ok" => ledger' = ledger
               /\ \A a \in Actors, i \in IdentityIds, ar \in RevocationRefs :
                    (revoke_identity(a, i, ar) /\ result'.code = "Ok") =>
                       /\ a = identities[i].owner
                       /\ identities' = [identities EXCEPT ![i] =
                             [@ EXCEPT !.status = "Revoked", !.arweave_tx_id = ar]]
                       /\ identities'[i].owner = identities[i].owner
                       /\ identities'[i].verification_level
                            = identities[i].verification_level
                       /\ identities'[i].verified_at = identities[i].verified_at
         ]_vars

\* C25 witness: identity idA was revoked by its owner while Pending (it has no
\* verified_at and no verification level), carries the revocation reference,
\* and a later verify_identity on it has failed.
C25_Witness ==
    /\ result = Reply("verify_identity", "InvalidStatus")
    /\ "idA" \in DOMAIN identities
    /\ identities["idA"].status = "Revoked"
    /\ identities["idA"].verified_at = None
    /\ identities["idA"].verification_level = "None"
    /\ identities["idA"].arweave_tx_id = "ar_rev"
    /\ "carol" \in DOMAIN oracles

\* successful_verifications summed over a set of oracles
RECURSIVE SumSuccessful(_, _)
SumSuccessful(orc, os) ==
    IF os = {} THEN 0
    ELSE LET o == CHOOSE x \in os : TRUE
         IN  orc[o].successful_verifications + SumSuccessful(orc, os \ {o})

\* C26: in every state each oracle record is active, has reputation 5000, a
\* stake of at least the registry's minimum, and as many successful
\* verifications as verifications; the successful verifications of all oracles
\* add up to the number of identities with verified_at set; the registry's
\* oracle_count is the number of oracle records (none without a registry).
\* Every step keeps each oracle record, and changes it only when that oracle's
\* verify_identity succeeds, which adds exactly 1 to both of its counters and
\* sets verified_at on one more identity.
C26_OracleBookkeeping ==
    /\ [](/\ \A o \in DOMAIN oracles :
               /\ IsSome(registry)
               /\ oracles[o].oracle_pubkey = o
               /\ oracles[o].is_active
               /\ oracles[o].reputation_score = INITIAL_REPUTATION
               /\ oracles[o].stake_amount >= Unwrap(registry).minimum_stake
               /\ oracles[o].verification_count = oracles[o].successful_verifications
          /\ IsSome(registry) =>
               Unwrap(registry).oracle_count = Cardinality(DOMAIN oracles)
          /\ SumSuccessful(oracles, DOMAIN oracles)
               = Cardinality({i \in DOMAIN identities : IsSome(identities[i].verified_at)}))
    /\ [][/\ \A o \in DOMAIN oracles :
               /\ o \in DOMAIN oracles'
               /\ oracles'[o] # oracles[o] =>
                    /\ result' = Reply("verify_identity", "Ok")
                    /\ oracles'[o] = [oracles[o] EXCEPT
                                        !.verification_count = @ + 1,
                                        !.successful_verifications = @ + 1]
                    /\ \A p \in DOMAIN oracles \ {o} : oracles'[p] = oracles[p]
          /\ result' = Reply("verify_identity", "Ok") =>
               \A o \in Actors, i \in IdentityIds, lv \in VerificationLevel,
                  ar \in {"ar_kyc"} :
                 verify_identity(o, i, lv, ar) =>
                    /\ oracles'[o].verification_count
                         = oracles[o].verification_count + 1
                    /\ identities[i].verified_at = None
                    /\ IsSome(identities'[i].verified_at)
         ]_vars

\* C26 witness: two oracles, registered with different stakes, have verified
\* one identity each.
C26_Witness ==
    /\ DOMAIN oracles = {"carol", "bob"}
    /\ oracles["carol"].successful_verifications = 1
    /\ oracles["bob"].successful_verifications = 1
    /\ oracles["carol"].stake_amount # oracles["bob"].stake_amount
    /\ Unwrap(registry).oracle_count = 2
    /\ \A i \in IdentityIds : i \in DOMAIN identities /\ IsSome(identities[i].verified_at)

\* C27: every listing, in every state: when active it has no buyer, no
\* sold_at and no cancelled_at; when inactive it has exactly one of sold_at
\* and cancelled_at; it has a buyer exactly when it has sold_at; its owner is
\* the owner of the identity account it names, and the owner of an identity
\* never changes; so a purchase that ends IdentityMismatch does so on the
\* buyer's side (the identity presented is not the buyer's), never on the
\* seller's.
C27_ListingShape ==
    /\ [](\A l \in DOMAIN listings :
            LET listing == listings[l]
            IN  /\ listing.id = l
                /\ listing.is_active =>
                     (listing.buyer = None /\ listing.sold_at = None
                      /\ listing.cancelled_at = None)
                /\ ~listing.is_active =>
                     (IsSome(listing.sold_at) # IsSome(listing.cancelled_at))
                /\ IsSome(listing.buyer) <=> IsSome(listing.sold_at)
                /\ listing.identity_id \in DOMAIN identities
                /\ identities[listing.identity_id].owner = listing.owner
                /\ \A b \in Actors, i \in IdentityIds,
                      from \in TokenAccounts, to \in TokenAccounts :
                     purchase_data_outcome(b, l, i, from, to).code = "IdentityMismatch"
                       => identities[i].owner # b)
    /\ [][/\ \A i \in DOMAIN identities :
               i \in DOMAIN identities' /\ identities'[i].owner = identities[i].owner
          /\ \A l \in DOMAIN listings :
               /\ l \in DOMAIN listings'
               /\ listings'[l].owner = listings[l].owner
               /\ listings'[l].identity_id = listings[l].identity_id
         ]_vars

\* C27 witness: alice's listing, backed by her identity, has been sold to bob,
\* and bob's own listing, backed by his identity, is open.
C27_Witness ==
    /\ DOMAIN listings = {1, 2}
    /\ listings[1].owner = "alice" /\ listings[1].identity_id = "idA"
    /\ listings[1].buyer = Some("bob") /\ ~listings[1].is_active
    /\ listings[2].owner = "bob" /\ listings[2].identity_id = "idB"
    /\ listings[2].is_active

====
